---- MODULE Spec2Model ----
(***************************************************************************)
(* A model of the RootSight log-analysis core: the log parser and stack    *)
(* fingerprinter (src/lib/logParser.ts), the similarity matcher and the    *)
(* confidence scorer (similarityEngine / confidenceEngine), the analyze    *)
(* edge function (supabase/functions/analyze/index.ts) and the dashboard's *)
(* analyzeLog handler (src/pages/Dashboard.tsx).                           *)
(*                                                                         *)
(* Text is modelled as TLA+ strings, character by character; a JavaScript  *)
(* regular expression is a small syntax tree run by a backtracking matcher *)
(* with the engine's priority order (leftmost match, greedy or lazy        *)
(* repetition, alternatives in order).                                     *)
(***************************************************************************)
EXTENDS Integers, Sequences, FiniteSets, TLC

VARIABLES
    hashIn,     \* the pair of stack traces handed to hashStackTrace
    hashOut,    \* their fingerprints
    parseIn,    \* the raw log text handed to parseLog
    parseOut,   \* the ParsedLog it returned
    simIn,      \* the MatchParams and the queried rows findSimilarIncidents works on
    simOut,     \* the score of each row and the list returned
    confIn,     \* the ConfidenceInput handed to computeConfidence
    confOut,    \* the ConfidenceResult it returned
    dash,       \* the state of each dashboard and of its analyzeLog
    edge,       \* the run of the analyze function serving each dashboard
    incidents,  \* the incidents table, oldest row first
    logAnalyses, \* the log_analyses table, oldest row first
    apiKeySet,   \* whether LOVABLE_API_KEY is configured
    levelIn, \* the confidence score a level is derived from
    levelOut, \* the level each of the three places derives
    scenIn, \* a log, the stored incidents and the model score of one analysis
    scenOut, \* what the analysis derives from them
    truncIn, \* a text and the character budget handed to truncateLog
    truncOut \* the text it returned

hashVars == <<hashIn, hashOut>>
parseVars == <<parseIn, parseOut>>
simVars == <<simIn, simOut>>
confVars == <<confIn, confOut>>
flowVars == <<dash, edge, incidents, logAnalyses, apiKeySet>>
levelVars == <<levelIn, levelOut>>
scenVars == <<scenIn, scenOut>>
truncVars == <<truncIn, truncOut>>
vars == <<hashVars, parseVars, simVars, confVars, flowVars, levelVars, scenVars, truncVars>>

None == "<none>"    \* "not computed yet" (never a value of the program)
Null == "<null>"    \* JavaScript null / undefined

-----------------------------------------------------------------------------
(* Characters *)

\* the characters of codes 32..126 in order (a tab holds the place of code 96,
\* which a TLA+ string cannot hold and no text of the model uses)
Ascii == " !\"#$%&'()*+,-./0123456789:;<=>?@ABCDEFGHIJKLMNOPQRSTUVWXYZ[\\]^_\tabcdefghijklmnopqrstuvwxyz{|}~"

CharAt(s, i) == SubSeq(s, i, i)

AsciiIndex(c) == CHOOSE k \in 1..Len(Ascii) : CharAt(Ascii, k) = c

\* String.prototype.charCodeAt for the characters the model uses
charCode(c) ==
    IF c = "\n" THEN 10
    ELSE IF c = "\t" THEN 9
    ELSE 31 + AsciiIndex(c)

Digits == {"0", "1", "2", "3", "4", "5", "6", "7", "8", "9"}
LowerLetters == {"a", "b", "c", "d", "e", "f", "g", "h", "i", "j", "k", "l", "m",
                 "n", "o", "p", "q", "r", "s", "t", "u", "v", "w", "x", "y", "z"}
UpperLetters == {"A", "B", "C", "D", "E", "F", "G", "H", "I", "J", "K", "L", "M",
                 "N", "O", "P", "Q", "R", "S", "T", "U", "V", "W", "X", "Y", "Z"}
HexLower == Digits \cup {"a", "b", "c", "d", "e", "f"}
Spaces == {" ", "\t", "\n"}                          \* \s
WordChars == Digits \cup LowerLetters \cup UpperLetters \cup {"_"}   \* \w

Lower(c) == IF c \in UpperLetters THEN CharAt(Ascii, AsciiIndex(c) + 32) ELSE c
Upper(c) == IF c \in LowerLetters THEN CharAt(Ascii, AsciiIndex(c) - 32) ELSE c

\* String.prototype.trim
RECURSIVE TrimLeft(_)
TrimLeft(s) == IF s # "" /\ CharAt(s, 1) \in Spaces THEN TrimLeft(Tail(s)) ELSE s
RECURSIVE TrimRight(_)
TrimRight(s) ==
    IF s # "" /\ CharAt(s, Len(s)) \in Spaces
    THEN TrimRight(SubSeq(s, 1, Len(s) - 1)) ELSE s
Trim(s) == TrimRight(TrimLeft(s))

-----------------------------------------------------------------------------
(* Regular expressions.  A pattern is a tree of records tagged by k:       *)
(*   lit  a literal string            cls  one character of a class        *)
(*   seq  a concatenation             alt  ordered alternatives            *)
(*   rep  a bounded repetition, greedy or lazy (max = -1: unbounded)       *)
(*   bos, eos, wb   the assertions ^, $ and \b                             *)
(* RxMatch gives, for a start position, the end positions of the matches   *)
(* in the order a backtracking engine tries them.                          *)

Lit(s) == [k |-> "lit", s |-> s]
Cls(set) == [k |-> "cls", set |-> set, neg |-> FALSE]
NotCls(set) == [k |-> "cls", set |-> set, neg |-> TRUE]
Cat(rs) == [k |-> "seq", rs |-> rs]
Alt(rs) == [k |-> "alt", rs |-> rs]
Rep(r, min, max) == [k |-> "rep", r |-> r, min |-> min, max |-> max, lazy |-> FALSE]
LazyRep(r, min, max) == [k |-> "rep", r |-> r, min |-> min, max |-> max, lazy |-> TRUE]
Bos == [k |-> "bos"]
Eos == [k |-> "eos"]
Wb == [k |-> "wb"]
AnyChar == NotCls({"\n"})          \* .
Digit == Cls(Digits)               \* \d
Space == Cls(Spaces)               \* \s
NonSpace == NotCls(Spaces)         \* \S
Inf == 0 - 1

Range(f) == {f[x] : x \in DOMAIN f}

Min(S) == CHOOSE x \in S : \A y \in S : x <= y

InSet(c, set, ci) ==
    \/ c \in set
    \/ ci /\ (Lower(c) \in set \/ Upper(c) \in set)

InClass(c, re, ci) == re.neg # InSet(c, re.set, ci)

IsWordAt(s, i) == i >= 1 /\ i <= Len(s) /\ CharAt(s, i) \in WordChars

\* the literal lit stands at position i of s
LitAt(lit, ci, s, i) ==
    /\ i + Len(lit) - 1 <= Len(s)
    /\ \A k \in 1..Len(lit) :
          IF ci THEN Lower(CharAt(s, i + k - 1)) = Lower(CharAt(lit, k))
          ELSE CharAt(s, i + k - 1) = CharAt(lit, k)

\* the position after the longest run, from position i, of characters of a class
RunEnd(cls, ci, s, i) ==
    Min({j \in i..(Len(s) + 1) : j = Len(s) + 1 \/ ~InClass(CharAt(s, j), cls, ci)})

\* the most rounds a repetition takes over a run of `run` characters
MostRounds(re, run) == IF re.max # Inf /\ re.max < run THEN re.max ELSE run

\* the ends of re.min..most rounds from position i: longest first when greedy,
\* shortest first when lazy
ClassEnds(re, i, most) ==
    IF most < re.min THEN <<>>
    ELSE [k \in 1..(most - re.min + 1) |->
            IF re.lazy THEN i + re.min + (k - 1) ELSE i + most - (k - 1)]

\* a repetition of one character class
ClassRep(re, ci, s, i) == ClassEnds(re, i, MostRounds(re, RunEnd(re.r, ci, s, i) - i))

\* the ends that moved on from position i, in their order
RECURSIVE Advancing(_, _, _)
Advancing(ends, k, i) ==
    IF k > Len(ends) THEN <<>>
    ELSE (IF ends[k] > i THEN <<ends[k]>> ELSE <<>>) \o Advancing(ends, k + 1, i)

RECURSIVE RxMatch(_, _, _, _), RxSeq(_, _, _, _, _), RxEach(_, _, _, _, _, _, _, _),
          RxAlt(_, _, _, _, _), RxRep(_, _, _, _, _)

RxMatch(re, ci, s, i) ==
    CASE re.k = "lit" -> IF LitAt(re.s, ci, s, i) THEN <<i + Len(re.s)>> ELSE <<>>
      [] re.k = "cls" ->
           IF i <= Len(s) /\ InClass(CharAt(s, i), re, ci) THEN <<i + 1>> ELSE <<>>
      [] re.k = "seq" -> RxSeq(re.rs, 1, ci, s, i)
      [] re.k = "alt" -> RxAlt(re.rs, 1, ci, s, i)
      [] re.k = "rep" -> IF re.r.k = "cls" THEN ClassRep(re, ci, s, i)
                         ELSE RxRep(re, 0, ci, s, i)
      [] re.k = "bos" -> IF i = 1 THEN <<i>> ELSE <<>>
      [] re.k = "eos" -> IF i = Len(s) + 1 THEN <<i>> ELSE <<>>
      [] re.k = "wb" -> IF IsWordAt(s, i - 1) # IsWordAt(s, i) THEN <<i>> ELSE <<>>

\* the continuations from every one of ends, in their order
RxEachOf(what, rs, k, ci, s, ends) == RxEach(what, rs, k, ci, s, ends, 1, Len(ends))

\* the ends of rs[k], rs[k+1], ... matched one after the other from position i
RxSeq(rs, k, ci, s, i) ==
    IF k > Len(rs) THEN <<i>>
    ELSE RxEachOf("seq", rs, k + 1, ci, s, RxMatch(rs[k], ci, s, i))

\* the continuations from ends[lo], ..., ends[hi], in that order: of the sequence
\* rs from its k-th part on, or of the repetition rs after k rounds
RxEach(what, rs, k, ci, s, ends, lo, hi) ==
    IF lo > hi THEN <<>>
    ELSE IF lo = hi
         THEN (IF what = "seq" THEN RxSeq(rs, k, ci, s, ends[lo])
               ELSE RxRep(rs, k, ci, s, ends[lo]))
    ELSE RxEach(what, rs, k, ci, s, ends, lo, (lo + hi) \div 2)
         \o RxEach(what, rs, k, ci, s, ends, (lo + hi) \div 2 + 1, hi)

RxAlt(rs, k, ci, s, i) ==
    IF k > Len(rs) THEN <<>>
    ELSE RxMatch(rs[k], ci, s, i) \o RxAlt(rs, k + 1, ci, s, i)

\* the ends of a repetition after n rounds at position i: those of further rounds
\* (more) and the end here, in the order greedy or lazy matching tries them
RxRepEnds(re, n, i, more) ==
    IF re.lazy THEN (IF n >= re.min THEN <<i>> ELSE <<>>) \o more
    ELSE more \o (IF n >= re.min THEN <<i>> ELSE <<>>)

\* n rounds of the repetition are done; a round that matches nothing ends it
RxRep(re, n, ci, s, i) ==
    RxRepEnds(re, n, i,
              IF re.max = Inf \/ n < re.max
              THEN RxEachOf("rep", re, n + 1, ci, s,
                            Advancing(RxMatch(re.r, ci, s, i), 1, i))
              ELSE <<>>)

\* the match of re that starts at position i: <<start, end>>
RxSpan(re, ci, s, i) == <<i, Head(RxMatch(re, ci, s, i))>>

RxFirstOf(re, ci, s, starts) ==
    IF starts = {} THEN <<0, 0>> ELSE RxSpan(re, ci, s, Min(starts))

\* The leftmost match at or after position from: <<start, end>>, or <<0, 0>>
RxSearch(re, ci, s, from) ==
    RxFirstOf(re, ci, s, {i \in from..(Len(s) + 1) : RxMatch(re, ci, s, i) # <<>>})

\* RegExp.prototype.test (no g flag: stateless)
RxTest(re, ci, s) == \E i \in 1..(Len(s) + 1) : RxMatch(re, ci, s, i) # <<>>

\* String.prototype.replace with a g-flagged pattern and a constant replacement:
\* the text from position from on, m being the next match; after an empty match
\* the search moves on by one character
RECURSIVE RxReplaceAll(_, _, _, _, _), RxReplaceAt(_, _, _, _, _, _)
RxReplaceAt(re, ci, s, by, from, m) ==
    IF m = <<0, 0>> THEN SubSeq(s, from, Len(s))
    ELSE IF m[2] = m[1]
         THEN SubSeq(s, from, m[1] - 1) \o by
              \o (IF m[1] <= Len(s)
                  THEN CharAt(s, m[1]) \o RxReplaceAll(re, ci, s, by, m[1] + 1)
                  ELSE "")
         ELSE SubSeq(s, from, m[1] - 1) \o by \o RxReplaceAll(re, ci, s, by, m[2])

RxReplaceAll(re, ci, s, by, from) ==
    RxReplaceAt(re, ci, s, by, from, RxSearch(re, ci, s, from))

-----------------------------------------------------------------------------
(* Lines and numbers as text *)

LineBreaks(s) == {i \in 1..Len(s) : CharAt(s, i) = "\n"}

\* the position of the k-th line break; 0 and n + 1 bound the text of length n
BreakAt(breaks, k, n) ==
    IF k = 0 THEN 0
    ELSE IF k > Cardinality(breaks) THEN n + 1
    ELSE CHOOSE i \in breaks : Cardinality({j \in breaks : j < i}) = k - 1

SplitAt(s, breaks) ==
    [k \in 1..(Cardinality(breaks) + 1) |->
        SubSeq(s, BreakAt(breaks, k - 1, Len(s)) + 1, BreakAt(breaks, k, Len(s)) - 1)]

\* String.prototype.split("\n")
SplitLines(s) == SplitAt(s, LineBreaks(s))

\* Array.prototype.join
RECURSIVE Join(_, _)
Join(lines, sep) ==
    IF lines = <<>> THEN ""
    ELSE IF Len(lines) = 1 THEN lines[1]
    ELSE lines[1] \o sep \o Join(Tail(lines), sep)

\* a relative index of slice resolved against the length n
ClampIndex(n, x) ==
    IF x < 0 THEN (IF n + x < 0 THEN 0 ELSE n + x)
    ELSE (IF x > n THEN n ELSE x)

\* Array.prototype.slice(start, end) on 0-based indices, end exclusive
Slice(xs, start, end) ==
    SubSeq(xs, ClampIndex(Len(xs), start) + 1, ClampIndex(Len(xs), end))

\* String(n) of a non-negative integer
RECURSIVE ToDecimal(_)
ToDecimal(n) ==
    IF n < 10 THEN CharAt("0123456789", n + 1)
    ELSE ToDecimal(n \div 10) \o CharAt("0123456789", (n % 10) + 1)

-----------------------------------------------------------------------------
(* Taxonomy classifier *)

\* /a.*b/
Gap(a, b) == Cat(<<Lit(a), Rep(AnyChar, 0, Inf), Lit(b)>>)

\* every pattern of ERROR_TAXONOMY carries the i flag
ERROR_TAXONOMY == <<
    [type |-> "OutOfMemoryError",
     patterns |-> <<Lit("OutOfMemoryError"), Lit("out of memory"), Lit("java heap space"),
                    Lit("OOMKilled"), Lit("memory limit exceeded"),
                    Lit("GC overhead limit exceeded")>>],
    [type |-> "SchemaMismatch",
     patterns |-> <<Lit("AnalysisException"), Lit("cannot resolve column"),
                    Lit("cannot resolve"), Lit("column not found"),
                    Lit("unresolved attribute"), Lit("Schema mismatch"),
                    Gap("schema", "mismatch"), Lit("incompatible schema"),
                    Gap("field", "missing"), Lit("unexpected field"),
                    Lit("type mismatch"), Gap("column", "does not exist")>>],
    [type |-> "PermissionDenied",
     patterns |-> <<Lit("Permission denied"), Lit("AccessControlException"),
                    Lit("not authorized"), Lit("Access denied"), Lit("Unauthorized"),
                    Lit("403 Forbidden"), Lit("insufficient privileges"),
                    Lit("PERMISSION_DENIED")>>],
    [type |-> "TimeoutException",
     patterns |-> <<Lit("TimeoutException"), Lit("timed out"), Lit("timeout"),
                    Lit("job aborted due to timeout"), Lit("connection timeout"),
                    Lit("read timeout"), Lit("socket timeout"),
                    Lit("deadline exceeded")>>],
    [type |-> "NetworkError",
     patterns |-> <<Lit("Connection refused"), Lit("Connection reset"),
                    Lit("JDBCConnectionException"), Gap("network", "unreachable"),
                    Gap("host", "not found"), Lit("DNS resolution failed")>>],
    [type |-> "NullPointerException",
     patterns |-> <<Lit("NullPointerException"), Lit("NullReferenceException"),
                    Lit("null pointer"), Lit("cannot read propert"),
                    Lit("is not defined"), Gap("AttributeError", "NoneType")>>] >>

\* patterns.some((p) => p.test(text))
SomePatternMatches(patterns, text) ==
    \E k \in 1..Len(patterns) : RxTest(patterns[k], TRUE, text)

\* A faulty variant of detectEntry, kept to show that the classification
\* property tells the two apart: the loop without its early return, so that the
\* last matching entry wins.
RECURSIVE detectLastEntry(_, _)
detectLastEntry(rawLog, k) ==
    IF k > Len(ERROR_TAXONOMY) THEN 0
    ELSE IF detectLastEntry(rawLog, k + 1) # 0 THEN detectLastEntry(rawLog, k + 1)
    ELSE IF SomePatternMatches(ERROR_TAXONOMY[k].patterns, rawLog) THEN k
    ELSE 0

\* the first entry of the taxonomy, from entry k on, one of whose patterns matches
\* rawLog; 0 when none does (the for loop of parseLog, step 3)
RECURSIVE detectEntry(_, _)
detectEntry(rawLog, k) ==
    IF k > Len(ERROR_TAXONOMY) THEN 0
    ELSE IF SomePatternMatches(ERROR_TAXONOMY[k].patterns, rawLog) THEN k
    ELSE detectEntry(rawLog, k + 1)

\* the window around line i (1-based): lines.slice(max(0, i-1), min(length, i+4))
\* for the 0-based index of the code
SnippetWindow(lines, i) ==
    Trim(Join(Slice(lines,
                    IF (i - 1) - 1 > 0 THEN (i - 1) - 1 ELSE 0,
                    IF (i - 1) + 4 < Len(lines) THEN (i - 1) + 4 ELSE Len(lines)),
              "\n"))

\* the first <<pattern, line>> in the order of the nested loops (patterns outside,
\* lines inside) whose pattern matches the line; <<0, 0>> when there is none
RECURSIVE firstPatternLine(_, _, _, _)
firstPatternLine(lines, patterns, k, i) ==
    IF k > Len(patterns) THEN <<0, 0>>
    ELSE IF i > Len(lines) THEN firstPatternLine(lines, patterns, k + 1, 1)
    ELSE IF RxTest(patterns[k], TRUE, lines[i]) THEN <<k, i>>
    ELSE firstPatternLine(lines, patterns, k, i + 1)

\* lines.slice(-5).join("\n").trim()
lastLines(lines) == Trim(Join(Slice(lines, 0 - 5, Len(lines)), "\n"))

snippetAt(lines, hit) ==
    IF hit # <<0, 0>> THEN SnippetWindow(lines, hit[2]) ELSE lastLines(lines)

snippetOf(lines, patterns) == snippetAt(lines, firstPatternLine(lines, patterns, 1, 1))

extractErrorSnippet(log, patterns) == snippetOf(SplitLines(log), patterns)

-----------------------------------------------------------------------------
(* Metadata extractor *)

Letters == LowerLetters \cup UpperLetters
Quote == Rep(Cls({"\"", "'"}), 0, 1)                  \* ["']?
LabelSep == Rep(Cls({":", "="} \cup Spaces), 1, Inf)  \* [:\s=]+
Words(ws) == Alt([k \in 1..Len(ws) |-> Lit(ws[k])])
Nothing == Cat(<<>>)

\* A pattern with one capture group: what precedes the group, the group, what follows
Capture(pre, grp, suf, ci) == [pre |-> pre, grp |-> grp, suf |-> suf, ci |-> ci]

\* /<label>[:\s=]+["']?(\S+?)["']?(?:\s|$|,)/i
LabelledToken(label) ==
    Capture(Cat(<<Lit(label), LabelSep, Quote>>),
            LazyRep(NonSpace, 1, Inf),
            Cat(<<Quote, Alt(<<Space, Eos, Lit(",")>>)>>), TRUE)

SERVICE_PATTERNS == <<
    LabelledToken("service"),
    \* /\[([a-zA-Z][\w.-]+)\]/
    Capture(Lit("["),
            Cat(<<Cls(Letters), Rep(Cls(WordChars \cup {".", "-"}), 1, Inf)>>),
            Lit("]"), FALSE),
    \* /(\w+[-.]service)/i
    Capture(Nothing,
            Cat(<<Rep(Cls(WordChars), 1, Inf), Cls({"-", "."}), Lit("service")>>),
            Nothing, TRUE),
    LabelledToken("component") >>

ENV_PATTERNS == <<
    \* /env(?:ironment)?[:\s=]+["']?(production|...|test)["']?/i
    Capture(Cat(<<Lit("env"), Rep(Lit("ironment"), 0, 1), LabelSep, Quote>>),
            Words(<<"production", "staging", "development", "dev", "prod", "stg",
                    "qa", "test">>),
            Quote, TRUE),
    \* /\b(production|staging|development|prod|stg|dev|qa)\b/i
    Capture(Wb,
            Words(<<"production", "staging", "development", "prod", "stg", "dev",
                    "qa">>),
            Wb, TRUE) >>

\* /<label>[_-]?id[:\s=]+["']?([a-f0-9-]{8,})["']?/i
LabelledId(label) ==
    Capture(Cat(<<Lit(label), Rep(Cls({"_", "-"}), 0, 1), Lit("id"), LabelSep, Quote>>),
            Rep(Cls(HexLower \cup {"-"}), 8, Inf),
            Quote, TRUE)

REQUEST_ID_PATTERNS == <<
    LabelledId("request"),
    LabelledId("trace"),
    LabelledId("correlation"),
    \* /x-request-id[:\s=]+["']?([a-f0-9-]{8,})["']?/i
    Capture(Cat(<<Lit("x-request-id"), LabelSep, Quote>>),
            Rep(Cls(HexLower \cup {"-"}), 8, Inf),
            Quote, TRUE) >>

\* /(\d{4}-\d{2}-\d{2}[T\s]\d{2}:\d{2}:\d{2}(?:\.\d+)?(?:Z|[+-]\d{2}:?\d{2})?)/
TIMESTAMP_PATTERN ==
    Capture(Nothing,
            Cat(<<Rep(Digit, 4, 4), Lit("-"), Rep(Digit, 2, 2), Lit("-"), Rep(Digit, 2, 2),
                  Cls({"T"} \cup Spaces),
                  Rep(Digit, 2, 2), Lit(":"), Rep(Digit, 2, 2), Lit(":"), Rep(Digit, 2, 2),
                  Rep(Cat(<<Lit("."), Rep(Digit, 1, Inf)>>), 0, 1),
                  Rep(Alt(<<Lit("Z"),
                            Cat(<<Cls({"+", "-"}), Rep(Digit, 2, 2),
                                  Rep(Lit(":"), 0, 1), Rep(Digit, 2, 2)>>)>>), 0, 1)>>),
            Nothing, FALSE)

\* the suffix of p matches at position g
suffixAt(p, s, g) == RxMatch(p.suf, p.ci, s, g) # <<>>

\* of the ends grps of the group, in the engine's order, the first after which
\* the suffix matches; 0 when there is none
firstGroupEnd(p, s, grps) ==
    IF \E b \in 1..Len(grps) : suffixAt(p, s, grps[b])
    THEN grps[Min({b \in 1..Len(grps) : suffixAt(p, s, grps[b])})]
    ELSE 0

\* the end of the group when it starts at position from; 0 when p fails there
groupEnd(p, s, from) == firstGroupEnd(p, s, RxMatch(p.grp, p.ci, s, from))

groupPick(p, s, pres, as) ==
    IF as = {} THEN <<FALSE, "">>
    ELSE <<TRUE, SubSeq(s, pres[Min(as)], groupEnd(p, s, pres[Min(as)]) - 1)>>

\* pres being the ends of the prefix in the engine's order
groupAfter(p, s, pres) ==
    groupPick(p, s, pres, {a \in 1..Len(pres) : groupEnd(p, s, pres[a]) # 0})

\* The group of the first match of p that starts at position i, trying the ends
\* of the prefix and of the group in the engine's order; <<FALSE, "">> when p
\* does not match at i
groupAt(p, s, i) == groupAfter(p, s, RxMatch(p.pre, p.ci, s, i))

matchGroupFrom(p, s, starts) ==
    IF starts = {} THEN Null ELSE groupAt(p, s, Min(starts))[2]

\* text.match(p)?.[1]: the group of the leftmost match, Null when p matches nowhere
matchGroup(p, s) == matchGroupFrom(p, s, {i \in 1..(Len(s) + 1) : groupAt(p, s, i)[1]})

\* m?.[1] when it is truthy, else what the later patterns give
firstTruthy(g, later) == IF g # Null /\ g # "" THEN g ELSE later

RECURSIVE extractFrom(_, _, _)
extractFrom(text, patterns, k) ==
    IF k > Len(patterns) THEN Null
    ELSE firstTruthy(matchGroup(patterns[k], text), extractFrom(text, patterns, k + 1))

extractMatch(text, patterns) == extractFrom(text, patterns, 1)

\* /^\s+at\s|Caused by:|Traceback|File\s+"/
TraceLineRe ==
    Alt(<<Cat(<<Bos, Rep(Space, 1, Inf), Lit("at"), Space>>),
          Lit("Caused by:"), Lit("Traceback"),
          Cat(<<Lit("File"), Rep(Space, 1, Inf), Lit("\"")>>)>>)
\* /^\s/
IndentedRe == Cat(<<Bos, Space>>)

RECURSIVE traceLines(_, _, _)
traceLines(lines, i, inTrace) ==
    IF i > Len(lines) THEN <<>>
    ELSE IF RxTest(TraceLineRe, FALSE, lines[i])
         THEN <<lines[i]>> \o traceLines(lines, i + 1, TRUE)
    ELSE IF inTrace /\ RxTest(IndentedRe, FALSE, lines[i])
         THEN <<lines[i]>> \o traceLines(lines, i + 1, inTrace)
    ELSE traceLines(lines, i + 1, FALSE)

extractStackTrace(log) == Join(traceLines(SplitLines(log), 1, FALSE), "\n")

-----------------------------------------------------------------------------
(* Sanitizing normalizer *)

\* /^\s*\d{4}-\d{2}-\d{2}.*\bINFO\b/
DatedInfoRe ==
    Cat(<<Bos, Rep(Space, 0, Inf), Rep(Digit, 4, 4), Lit("-"), Rep(Digit, 2, 2),
          Lit("-"), Rep(Digit, 2, 2), Rep(AnyChar, 0, Inf), Wb, Lit("INFO"), Wb>>)
\* /^\s*\[INFO\]/
BracketInfoRe == Cat(<<Bos, Rep(Space, 0, Inf), Lit("[INFO]")>>)
\* /error|exception|fail|warn/i
ProblemWordRe == Words(<<"error", "exception", "fail", "warn">>)

keepLine(l) ==
    /\ Trim(l) # ""
    /\ ~(RxTest(DatedInfoRe, FALSE, l) /\ ~RxTest(ProblemWordRe, TRUE, l))
    /\ ~(RxTest(BracketInfoRe, FALSE, l) /\ ~RxTest(ProblemWordRe, TRUE, l))

RECURSIVE keptLines(_, _)
keptLines(lines, i) ==
    IF i > Len(lines) THEN <<>>
    ELSE (IF keepLine(lines[i]) THEN <<lines[i]>> ELSE <<>>) \o keptLines(lines, i + 1)

removeInfoLines(log) == Join(keptLines(SplitLines(log), 1), "\n")

\* /^\s+at\s/
FrameRe == Cat(<<Bos, Rep(Space, 1, Inf), Lit("at"), Space>>)

dupeMarker(dupeCount) == "  ... (" \o ToDecimal(dupeCount) \o " duplicate frame(s) removed)"

\* the for loop of deduplicateStackTraces from line i on, with the set of frames
\* seen so far and the count of duplicates dropped since the last line kept
RECURSIVE dedupLines(_, _, _, _), dedupLine(_, _, _, _, _, _)
dedupLines(lines, i, seen, dupeCount) ==
    IF i > Len(lines)
    THEN (IF dupeCount > 0 THEN <<dupeMarker(dupeCount)>> ELSE <<>>)
    ELSE dedupLine(lines, i, seen, dupeCount, Trim(lines[i]),
                   RxTest(FrameRe, FALSE, lines[i]))

\* one round of the loop: line i, its trimmed text and whether it is a frame
dedupLine(lines, i, seen, dupeCount, normalized, isFrame) ==
    IF isFrame /\ normalized \in seen
    THEN dedupLines(lines, i + 1, seen, dupeCount + 1)
    ELSE (IF dupeCount > 0 THEN <<dupeMarker(dupeCount)>> ELSE <<>>)
         \o <<lines[i]>>
         \o dedupLines(lines, i + 1, IF isFrame THEN seen \cup {normalized} ELSE seen, 0)

deduplicateStackTraces(log) == Join(dedupLines(SplitLines(log), 1, {}, 0), "\n")

Alnum == Digits \cup Letters
OptSep == Rep(Cls(Spaces \cup {"-"}), 0, 1)           \* [\s-]?

PII_PATTERNS == <<
    \* /\b[A-Za-z0-9._%+-]+@[A-Za-z0-9.-]+\.[A-Z|a-z]{2,}\b/g
    [pattern |-> Cat(<<Wb, Rep(Cls(Alnum \cup {".", "_", "%", "+", "-"}), 1, Inf),
                       Lit("@"), Rep(Cls(Alnum \cup {".", "-"}), 1, Inf), Lit("."),
                       Rep(Cls(Letters \cup {"|"}), 2, Inf), Wb>>),
     ci |-> FALSE, replacement |-> "[EMAIL_REDACTED]"],
    \* /\b\d{4}[\s-]?\d{4}[\s-]?\d{4}[\s-]?\d{4}\b/g
    [pattern |-> Cat(<<Wb, Rep(Digit, 4, 4), OptSep, Rep(Digit, 4, 4), OptSep,
                       Rep(Digit, 4, 4), OptSep, Rep(Digit, 4, 4), Wb>>),
     ci |-> FALSE, replacement |-> "[CARD_REDACTED]"],
    \* /\b\d{3}-\d{2}-\d{4}\b/g
    [pattern |-> Cat(<<Wb, Rep(Digit, 3, 3), Lit("-"), Rep(Digit, 2, 2), Lit("-"),
                       Rep(Digit, 4, 4), Wb>>),
     ci |-> FALSE, replacement |-> "[SSN_REDACTED]"],
    \* /\b\d{9,12}\b/g
    [pattern |-> Cat(<<Wb, Rep(Digit, 9, 12), Wb>>),
     ci |-> FALSE, replacement |-> "[ACCT_REDACTED]"],
    \* /(?:password|passwd|secret|token|api_key|apikey)\s*[:=]\s*\S+/gi
    [pattern |-> Cat(<<Words(<<"password", "passwd", "secret", "token", "api_key",
                               "apikey">>),
                       Rep(Space, 0, Inf), Cls({":", "="}), Rep(Space, 0, Inf),
                       Rep(NonSpace, 1, Inf)>>),
     ci |-> TRUE, replacement |-> "[CREDENTIAL_REDACTED]"] >>

RECURSIVE maskFrom(_, _)
maskFrom(masked, k) ==
    IF k > Len(PII_PATTERNS) THEN masked
    ELSE maskFrom(RxReplaceAll(PII_PATTERNS[k].pattern, PII_PATTERNS[k].ci, masked,
                               PII_PATTERNS[k].replacement, 1), k + 1)

maskPII(log) == maskFrom(log, 1)

DefaultMaxChars == 12000

\* Math.floor(n * 0.3) and Math.floor(n * 0.7) in double arithmetic.  The double
\* nearest 0.7 lies below 0.7, and for the listed n the product rounds to just
\* under the integer 7n/10; no other n below 400 differs from the exact floor,
\* and n * 0.3 never does.
FloorThreeTenths(n) == (3 * n) \div 10
FloorSevenTenths(n) ==
    IF n \in {90, 170, 180, 330, 340, 350, 360} THEN (7 * n) \div 10 - 1
    ELSE (7 * n) \div 10

truncationMarker(omitted) == "\n... [" \o ToDecimal(omitted) \o " lines truncated] ...\n"

\* String.prototype.substring(0, n)
Substring(s, n) == SubSeq(s, 1, IF Len(s) < n THEN Len(s) ELSE n)

\* head, marker and tail joined; slice(-0) is slice(0), the whole array
combineLines(lines, headCount, tailCount) ==
    Join(Slice(lines, 0, headCount)
         \o <<truncationMarker(Len(lines) - headCount - tailCount)>>
         \o (IF tailCount = 0 THEN lines ELSE Slice(lines, 0 - tailCount, Len(lines))),
         "\n")

truncateLines(lines, maxChars) ==
    Substring(combineLines(lines, FloorThreeTenths(Len(lines)),
                           FloorSevenTenths(Len(lines))), maxChars)

truncateLog(log, maxChars) ==
    IF Len(log) <= maxChars THEN log ELSE truncateLines(SplitLines(log), maxChars)

RECURSIVE nonBlank(_, _)
nonBlank(lines, i) ==
    IF i > Len(lines) THEN <<>>
    ELSE (IF Len(Trim(lines[i])) > 0 THEN <<lines[i]>> ELSE <<>>) \o nonBlank(lines, i + 1)

summaryText(totalLines, preview) ==
    ToDecimal(totalLines) \o " lines. Preview: " \o Substring(preview, 200)
    \o (IF Len(preview) > 200 THEN "..." ELSE "")

summaryOf(lines) == summaryText(Len(lines), Trim(Join(Slice(lines, 0, 3), " | ")))

summarizeLog(log) == summaryOf(nonBlank(SplitLines(log), 1))

-----------------------------------------------------------------------------
(* parseLog *)

\* step 2: the preprocessing pipeline
cleanLog(rawLog) ==
    truncateLog(maskPII(deduplicateStackTraces(removeInfoLines(rawLog))), DefaultMaxChars)

\* the ParsedLog returned for the taxonomy entry k that matched (0: none did)
parsedLogOf(rawLog, cleaned, k) ==
    [detectedErrorType |-> IF k # 0 THEN ERROR_TAXONOMY[k].type ELSE "UnknownError",
     errorSnippet |-> IF k # 0
                      THEN extractErrorSnippet(rawLog, ERROR_TAXONOMY[k].patterns)
                      ELSE lastLines(SplitLines(rawLog)),
     logSummary |-> summarizeLog(cleaned),
     serviceName |-> extractMatch(rawLog, SERVICE_PATTERNS),
     environment |-> extractMatch(rawLog, ENV_PATTERNS),
     requestId |-> extractMatch(rawLog, REQUEST_ID_PATTERNS),
     \* timestampMatch?.[1] || null
     timestamp |-> firstTruthy(matchGroup(TIMESTAMP_PATTERN, rawLog), Null),
     stackTrace |-> extractStackTrace(rawLog),
     cleanedLog |-> cleaned]

parseLog(rawLog) == parsedLogOf(rawLog, cleanLog(rawLog), detectEntry(rawLog, 1))

-----------------------------------------------------------------------------
(* 32-bit integers.  TLC's integers are 32 bits wide, so an int32 is kept  *)
(* as the two 16-bit halves <<hi, lo>> of its two's-complement pattern.    *)

Two16 == 256 * 256
Two15 == 128 * 256
Zero32 == <<0, 0>>

\* x << 5 on an int32
Shl5(x) == <<(x[1] * 32 + (x[2] * 32) \div Two16) % Two16, (x[2] * 32) % Two16>>

\* (x - y) | 0
Sub32(x, y) ==
    <<(x[1] - y[1] - (IF x[2] < y[2] THEN 1 ELSE 0) + 2 * Two16) % Two16,
      (x[2] - y[2] + Two16) % Two16>>

\* (x + c) | 0 for a character code c
Add32(x, c) == <<(x[1] + (x[2] + c) \div Two16) % Two16, (x[2] + c) % Two16>>

IsNeg32(x) == x[1] >= Two15

\* Math.abs of an int32, as an unsigned magnitude (2^31 for -2^31)
Abs32(x) ==
    IF ~IsNeg32(x) THEN x
    ELSE IF x[2] = 0 THEN <<(Two16 - x[1]) % Two16, 0>>
    ELSE <<Two16 - 1 - x[1], Two16 - x[2]>>

Base36Digits == "0123456789abcdefghijklmnopqrstuvwxyz"

\* Number.prototype.toString(36) of a non-negative integer
\* u divided by 36, by long division on the halves: <<quotient, remainder>>
DivMod36(u) ==
    << <<u[1] \div 36, ((u[1] % 36) * Two16 + u[2]) \div 36>>,
       ((u[1] % 36) * Two16 + u[2]) % 36 >>

RECURSIVE ToString36(_), ToString36Of(_)
ToString36Of(qr) ==
    IF qr[1] = Zero32 THEN CharAt(Base36Digits, qr[2] + 1)
    ELSE ToString36(qr[1]) \o CharAt(Base36Digits, qr[2] + 1)

ToString36(u) == ToString36Of(DivMod36(u))

-----------------------------------------------------------------------------
(* Stack fingerprinter: hashStackTrace *)

\* /:\d+/g
LineNumberRe == Cat(<<Lit(":"), Rep(Digit, 1, Inf)>>)
\* /0x[0-9a-f]+/gi
HexAddressRe == Cat(<<Lit("0x"), Rep(Cls(HexLower), 1, Inf)>>)
\* /\d{4}-\d{2}-\d{2}[T\s]\d{2}:\d{2}:\d{2}\S*/g
HashTimestampRe ==
    Cat(<<Rep(Digit, 4, 4), Lit("-"), Rep(Digit, 2, 2), Lit("-"), Rep(Digit, 2, 2),
          Cls({"T"} \cup Spaces),
          Rep(Digit, 2, 2), Lit(":"), Rep(Digit, 2, 2), Lit(":"), Rep(Digit, 2, 2),
          Rep(NonSpace, 0, Inf)>>)

\* the three replacements and the trim, in the order the code chains them
normalizeTrace(stackTrace) ==
    Trim(RxReplaceAll(HashTimestampRe, FALSE,
                      RxReplaceAll(HexAddressRe, TRUE,
                                   RxReplaceAll(LineNumberRe, FALSE, stackTrace, ":N", 1),
                                   "0xADDR", 1),
                      "TIMESTAMP", 1))

\* A faulty variant of hashStep, kept to show that the reference fingerprint
\* tells the two apart: the subtraction is left out (32 * hash + chr).
hashStepUnsubtracted(hash, chr) == Add32(Shl5(hash), chr)

\* hash = ((hash << 5) - hash) + chr; hash |= 0.  The shift wraps to int32; the
\* subtraction and the addition are exact in a double, so wrapping after each of
\* them gives the same int32 as the single |= 0.
hashStep(hash, chr) == Add32(Sub32(Shl5(hash), hash), chr)

\* for (let i = 0; i < normalized.length; i++): the value of hash after the
\* characters i..j, given its value before them (i counts from 1 here)
RECURSIVE hashLoop(_, _, _, _), hashRest(_, _, _, _)
hashLoop(normalized, i, j, hash) ==
    IF i > j THEN hash
    ELSE IF i = j THEN hashStep(hash, charCode(CharAt(normalized, i)))
    ELSE hashRest(normalized, (i + j) \div 2 + 1, j,
                  hashLoop(normalized, i, (i + j) \div 2, hash))

\* the loop over the characters i..j once the value before them is computed
hashRest(normalized, i, j, hash) ==
    IF hash[1] >= 0 THEN hashLoop(normalized, i, j, hash) ELSE hash

hashOf(normalized) == ToString36(Abs32(hashLoop(normalized, 1, Len(normalized), Zero32)))

hashStackTrace(stackTrace) ==
    IF stackTrace = "" THEN "" ELSE hashOf(normalizeTrace(stackTrace))

-----------------------------------------------------------------------------
(* Similarity matcher: findSimilarIncidents                                *)

QueryLimit == 50       \* .limit(50)
TopMatches == 5        \* .slice(0, 5)
MinSimilarity == 20    \* if (score >= 20)

\* a JavaScript string-or-null used as a condition
Truthy(v) == v # Null /\ v # ""

\* A number that may be null or missing is kept as <<n>>, or <<>> when it is.
NoNumber == <<>>
Some(n) == <<n>>
\* value ?? fallback
OrElse(value, fallback) == IF value = NoNumber THEN fallback ELSE value[1]

\* Array.prototype.filter on a predicate given as a set of the kept elements
RECURSIVE KeepIn(_, _, _)
KeepIn(xs, i, kept) ==
    IF i > Len(xs) THEN <<>>
    ELSE (IF xs[i] \in kept THEN <<xs[i]>> ELSE <<>>) \o KeepIn(xs, i + 1, kept)

RECURSIVE Reverse(_)
Reverse(xs) == IF xs = <<>> THEN <<>> ELSE Reverse(Tail(xs)) \o <<Head(xs)>>

\* .eq("user_id", userId).order("created_at", {ascending: false}).limit(50) on
\* the incidents table, whose rows the model keeps oldest first
recentIncidents(rows, userId) ==
    Slice(Reverse(KeepIn(rows, 1, {r \in Range(rows) : r.user_id = userId})),
          0, QueryLimit)

\* A faulty variant of incidentScore, kept to show that the scoring property
\* tells the two apart: the fingerprint test without its non-empty guard.
incidentScoreUnguarded(stackTraceHash, errorType, serviceName, incident) ==
    (IF incident.stack_trace_hash = stackTraceHash THEN 70 ELSE 0)
    + (IF Truthy(errorType) /\ incident.error_type = errorType THEN 20 ELSE 0)
    + (IF Truthy(serviceName) /\ incident.service_name = serviceName THEN 10 ELSE 0)

\* the score the loop gives one incident
incidentScore(stackTraceHash, errorType, serviceName, incident) ==
    (IF Truthy(stackTraceHash) /\ incident.stack_trace_hash = stackTraceHash
     THEN 70 ELSE 0)
    + (IF Truthy(errorType) /\ incident.error_type = errorType THEN 20 ELSE 0)
    + (IF Truthy(serviceName) /\ incident.service_name = serviceName THEN 10 ELSE 0)

\* A faulty variant of similarIncident, kept to show that the independence
\* property tells the two apart: a resolved incident is reported ten points
\* higher.
similarIncidentByStatus(incident, score) ==
    [id |-> incident.id,
     created_at |-> incident.created_at,
     error_type |-> incident.error_type,
     service_name |-> incident.service_name,
     root_cause_summary |-> incident.root_cause_summary,
     resolution_notes |-> incident.resolution_notes,
     confidence_score |-> OrElse(incident.confidence_score, 0),
     status |-> incident.status,
     similarityScore |-> IF score + (IF incident.status = "Resolved" THEN 10 ELSE 0) < 100
                         THEN score + (IF incident.status = "Resolved" THEN 10 ELSE 0)
                         ELSE 100]

\* the SimilarIncident pushed for an incident of the given score
similarIncident(incident, score) ==
    [id |-> incident.id,
     created_at |-> incident.created_at,
     error_type |-> incident.error_type,
     service_name |-> incident.service_name,
     root_cause_summary |-> incident.root_cause_summary,
     resolution_notes |-> incident.resolution_notes,
     \* incident.confidence_score ?? 0
     confidence_score |-> OrElse(incident.confidence_score, 0),
     status |-> incident.status,
     similarityScore |-> IF score < 100 THEN score ELSE 100]

pushIfSimilar(incident, score) ==
    IF score >= MinSimilarity THEN <<similarIncident(incident, score)>> ELSE <<>>

\* the for loop over data from its i-th incident on: the results pushed
RECURSIVE scoreIncidents(_, _, _)
scoreIncidents(params, data, i) ==
    IF i > Len(data) THEN <<>>
    ELSE pushIfSimilar(data[i], incidentScore(params.stackTraceHash, params.errorType,
                                              params.serviceName, data[i]))
         \o scoreIncidents(params, data, i + 1)

\* A faulty variant of insertSorted, kept to show that the ranking property
\* tells the two apart: an unstable sort, which puts an element before those
\* of equal score.
insertSortedUnstable(sorted, x) ==
    SubSeq(sorted, 1, Cardinality({k \in 1..Len(sorted) :
                                      sorted[k].similarityScore > x.similarityScore}))
    \o <<x>>
    \o SubSeq(sorted, Cardinality({k \in 1..Len(sorted) :
                                      sorted[k].similarityScore > x.similarityScore}) + 1,
              Len(sorted))

\* x put into a list sorted by descending similarityScore, after the elements
\* that compare before it or equal to it
insertSorted(sorted, x) ==
    SubSeq(sorted, 1, Cardinality({k \in 1..Len(sorted) :
                                      sorted[k].similarityScore >= x.similarityScore}))
    \o <<x>>
    \o SubSeq(sorted, Cardinality({k \in 1..Len(sorted) :
                                      sorted[k].similarityScore >= x.similarityScore}) + 1,
              Len(sorted))

\* results.sort((a, b) => b.similarityScore - a.similarityScore): Array.prototype
\* .sort is stable, so elements of equal score keep their order
RECURSIVE sortBySimilarity(_, _, _)
sortBySimilarity(results, i, sorted) ==
    IF i > Len(results) THEN sorted
    ELSE sortBySimilarity(results, i + 1, insertSorted(sorted, results[i]))

\* the part of findSimilarIncidents after the query, data being its rows
rankIncidents(params, data) ==
    Slice(sortBySimilarity(scoreIncidents(params, data, 1), 1, <<>>), 0, TopMatches)

\* findSimilarIncidents on the incidents table; a failed query gives the empty list
findSimilarIncidents(params, rows, queryFails) ==
    IF queryFails THEN <<>>
    ELSE rankIncidents(params, recentIncidents(rows, params.userId))

-----------------------------------------------------------------------------
(* Confidence engine: computeConfidence.  The score is a sum of 0.4 times  *)
(* an integer and of integers; it is kept in tenths, which represents it   *)
(* exactly.  (In floating point 0.4 * m is off by less than 1e-13 from a   *)
(* number with fractional part 0, .2, .4, .6 or .8, so rounding it gives   *)
(* the same integer.)                                                      *)

\* A faulty variant of llmWeight, kept to show that the monotonicity property
\* tells the two apart: a score above 100 is dropped instead of capped.
llmWeightDropped(llmConfidenceScore) ==
    4 * (IF llmConfidenceScore <= 100 THEN llmConfidenceScore ELSE 0)

\* Math.min(llmConfidenceScore, 100) * 0.4, in tenths
llmWeight(llmConfidenceScore) ==
    4 * (IF llmConfidenceScore < 100 THEN llmConfidenceScore ELSE 100)

llmReason(llmConfidenceScore) ==
    IF llmConfidenceScore >= 80 THEN "LLM reports high certainty in its analysis"
    ELSE IF llmConfidenceScore >= 50 THEN "LLM reports moderate certainty"
    \* the source has a dash (U+2014) where this text has " - "
    ELSE "LLM reports low certainty - analysis may be speculative"

\* bestMatch && bestMatch.similarityScore >= least
bestMatchReaches(similarIncidents, least) ==
    similarIncidents # <<>> /\ similarIncidents[1].similarityScore >= least

\* A faulty variant of similarityPoints, kept to show that the scoring
\* property tells the two apart: a best match of exactly 70 counts as partial.
similarityPointsStrict(similarIncidents) ==
    IF bestMatchReaches(similarIncidents, 71) THEN 30
    ELSE IF bestMatchReaches(similarIncidents, 40) THEN 15
    ELSE 0

\* what the similarity match adds to the score
similarityPoints(similarIncidents) ==
    IF bestMatchReaches(similarIncidents, 70) THEN 30
    ELSE IF bestMatchReaches(similarIncidents, 40) THEN 15
    ELSE 0

\* the reasons the similarity match pushes: one, or none
similarityReasons(similarIncidents) ==
    IF bestMatchReaches(similarIncidents, 70)
    THEN <<"Strong match with " \o ToDecimal(Len(similarIncidents))
           \o " previous incident(s) ("
           \o ToDecimal(similarIncidents[1].similarityScore) \o "% similarity)">>
    ELSE IF bestMatchReaches(similarIncidents, 40)
    THEN <<"Partial match with previous incidents ("
           \o ToDecimal(similarIncidents[1].similarityScore) \o "% similarity)">>
    ELSE IF Len(similarIncidents) = 0
    \* the source has a dash (U+2014) where this text has " - "
    THEN <<"No similar past incidents found - this may be a novel issue">>
    ELSE <<>>

\* A faulty variant of completenessOf, kept to show that the bound for
\* unrecognized logs tells the two apart: the fallback category earns the
\* category's points.
completenessOfAnyCategory(parsedLog) ==
    8
    + (IF Truthy(parsedLog.serviceName) THEN 6 ELSE 0)
    + (IF Truthy(parsedLog.environment) THEN 4 ELSE 0)
    + (IF Truthy(parsedLog.requestId) THEN 4 ELSE 0)
    + (IF Truthy(parsedLog.timestamp) THEN 4 ELSE 0)
    + (IF Len(parsedLog.stackTrace) > 20 THEN 4 ELSE 0)

completenessOf(parsedLog) ==
    (IF parsedLog.detectedErrorType # "UnknownError" THEN 8 ELSE 0)
    + (IF Truthy(parsedLog.serviceName) THEN 6 ELSE 0)
    + (IF Truthy(parsedLog.environment) THEN 4 ELSE 0)
    + (IF Truthy(parsedLog.requestId) THEN 4 ELSE 0)
    + (IF Truthy(parsedLog.timestamp) THEN 4 ELSE 0)
    + (IF Len(parsedLog.stackTrace) > 20 THEN 4 ELSE 0)

completenessReason(completeness) ==
    IF completeness >= 20
    THEN "Log provided rich structured context (service, env, trace)"
    ELSE IF completeness >= 10 THEN "Some structured context available from log"
    \* the source has a dash (U+2014) where this text has " - "
    ELSE "Limited structured context extracted - confidence reduced"

\* Math.round of a number given in tenths: the nearest integer, halves upwards
roundTenths(tenths) == (tenths + 5) \div 10

\* Math.round(Math.min(score, 100)), score in tenths
finalScoreOf(score) == roundTenths(IF score < 1000 THEN score ELSE 1000)

confidenceLevel(finalScore) ==
    IF finalScore >= 75 THEN "high" ELSE IF finalScore >= 45 THEN "medium" ELSE "low"

confidenceReasons(llmConfidenceScore, similarIncidents, parsedLog) ==
    <<llmReason(llmConfidenceScore)>>
    \o similarityReasons(similarIncidents)
    \o <<completenessReason(completenessOf(parsedLog))>>

confidenceResult(finalScore, reasons) ==
    [score |-> finalScore,
     reasoning |-> Join(reasons, ". ") \o ".",
     level |-> confidenceLevel(finalScore)]

computeConfidence(llmConfidenceScore, similarIncidents, parsedLog) ==
    confidenceResult(
        finalScoreOf(llmWeight(llmConfidenceScore)
                     + 10 * similarityPoints(similarIncidents)
                     + 10 * completenessOf(parsedLog)),
        confidenceReasons(llmConfidenceScore, similarIncidents, parsedLog))

-----------------------------------------------------------------------------
(* The incidents list and the incident detail page: the confidence level   *)
(* each derives from a stored score.                                       *)

\* A faulty variant of getLevel, kept to show that the level property tells
\* the two apart: a score of exactly 75 counts as medium.
getLevelStrict(score) ==
    IF score > 75 THEN "high" ELSE IF score >= 45 THEN "medium" ELSE "low"

\* getLevel of the incidents list
getLevel(score) ==
    IF score >= 75 THEN "high" ELSE IF score >= 45 THEN "medium" ELSE "low"

\* const level = ... of the incident detail page
detailLevel(confidence_score) ==
    IF confidence_score >= 75 THEN "high"
    ELSE IF confidence_score >= 45 THEN "medium"
    ELSE "low"

-----------------------------------------------------------------------------
(* The analyze edge function: callLLM, parseJSON and the request handler.  *)
(*                                                                         *)
(* An answer of the AI gateway is a record: status 0 stands for a fetch    *)
(* that rejects, and a 200 answer carries either a body that is no JSON    *)
(* (garbled) or the message content.  A content is described by what       *)
(* parseJSON asks of it: whether /\{[\s\S]*\}/ finds an object in it,      *)
(* whether JSON.parse accepts that object, and the value parsed, whose     *)
(* root_cause_summary is <<text>> when it is a string and <<>> otherwise,  *)
(* whose confidence_score is <<n>> when it is a number and <<>> otherwise, *)
(* and whose recommended_fix_steps is tagged array, string or other.       *)

\* JavaScript null where an object is expected
Nil == [nil |-> TRUE]

FetchRejected == 0     \* no HTTP answer: fetch rejects
HttpOk == 200
RateLimited == 429
PaymentRequired == 402
ServerError == 500

\* something thrown: an Error (isError) or the plain object callLLM throws
Thrown(status, message, isError) ==
    [status |-> status, message |-> message, isError |-> isError]

Returned(content) == [threw |-> FALSE, content |-> content]
Threw(err) == [threw |-> TRUE, err |-> err]

\* callLLM, given the answer of the gateway to its fetch
callLLM(answer) ==
    IF answer.status = FetchRejected
    THEN Threw(Thrown(NoNumber, "error sending request", TRUE))
    ELSE IF answer.status = RateLimited
    THEN Threw(Thrown(Some(RateLimited),
                      "Rate limit exceeded. Please try again shortly.", FALSE))
    ELSE IF answer.status = PaymentRequired
    THEN Threw(Thrown(Some(PaymentRequired),
                      "Usage limit reached. Please add credits.", FALSE))
    ELSE IF answer.status \notin 200..299
    THEN Threw(Thrown(NoNumber, "AI gateway returned " \o ToDecimal(answer.status), TRUE))
    ELSE IF answer.garbled
    \* response.json() rejects
    THEN Threw(Thrown(NoNumber, "Unexpected token in JSON", TRUE))
    ELSE Returned(answer.content)

\* one piece of split(/\n|;/): the text up to the next separator from i on
RECURSIVE stepEnd(_, _)
stepEnd(text, i) ==
    IF i > Len(text) \/ CharAt(text, i) \in {"\n", ";"} THEN i ELSE stepEnd(text, i + 1)

\* text.split(/\n|;/).filter(Boolean).map(s => s.trim()) from position i on
RECURSIVE splitSteps(_, _)
splitSteps(text, i) ==
    IF i > Len(text) + 1 THEN <<>>
    ELSE (IF stepEnd(text, i) > i
          THEN <<Trim(SubSeq(text, i, stepEnd(text, i) - 1))>> ELSE <<>>)
         \o splitSteps(text, stepEnd(text, i) + 1)

\* A faulty variant of fixStepsOf, kept to show that the acceptance property
\* tells the two apart: a string is kept whole.
fixStepsOfUnsplit(steps) ==
    IF steps.kind = "array" THEN steps.value
    ELSE IF steps.kind = "string" THEN <<steps.value>>
    ELSE <<>>

\* recommended_fix_steps as parseJSON leaves it
fixStepsOf(steps) ==
    IF steps.kind = "array" THEN steps.value
    ELSE IF steps.kind = "string" THEN splitSteps(steps.value, 1)
    ELSE <<>>

\* the object parseJSON returns for an accepted value
acceptedObject(value) ==
    [error_type |-> value.error_type,
     affected_service |-> value.affected_service,
     root_cause_summary |-> value.root_cause_summary[1],
     confidence_reasoning |-> value.confidence_reasoning,
     confidence_score |-> OrElse(value.confidence_score, 50),
     recommended_fix_steps |-> fixStepsOf(value.recommended_fix_steps),
     long_term_prevention |-> value.long_term_prevention,
     impact_scope |-> value.impact_scope,
     error |-> value.error,
     status |-> value.status]

parseJSON(content) ==
    IF ~content.found THEN Nil
    ELSE IF ~content.wellFormed THEN Nil
    ELSE IF content.value.root_cause_summary = <<>> THEN Nil
    ELSE acceptedObject(content.value)

Response(status, body) == [status |-> status, body |-> body]

\* the catch block of the handler
errorResponse(err) ==
    IF err.status \in {Some(RateLimited), Some(PaymentRequired)}
    THEN Response(err.status[1], [error |-> err.message, status |-> err.status])
    ELSE Response(ServerError,
                  [error |-> IF err.isError THEN err.message ELSE "Unknown error",
                   status |-> NoNumber])

\* A faulty variant of retryNeeded, kept to show that the retry property
\* tells the two apart: every unparseable content is retried.
retryNeededAlways(attempt, parsed) == parsed = Nil

\* if (!parsed) after the first attempt (the second test of !parsed, after
\* the retry, gives up)
retryNeeded(attempt, parsed) == attempt = 1 /\ parsed = Nil

\* the state of one run of the handler: where it is, the request body, the
\* prompts sent to callLLM (amended or not), the answers received, and its
\* Response
EdgeIdle ==
    [pc |-> "idle", request |-> Nil, calls |-> <<>>, answers |-> <<>>,
     response |-> Nil]

responded(run, response) == [run EXCEPT !.pc = "responded", !.response = response]

\* the handler from the request received to the first await of callLLM
serveRequest(run, request, hasKey) ==
    IF ~hasKey
    THEN responded([run EXCEPT !.request = request],
                   errorResponse(Thrown(NoNumber, "LOVABLE_API_KEY is not configured",
                                        TRUE)))
    ELSE [run EXCEPT !.pc = "calling", !.request = request,
                     !.calls = <<[amended |-> FALSE]>>]

\* the handler after a content came back from callLLM and was parsed
afterContent(run, parsed) ==
    IF retryNeeded(Len(run.calls), parsed)
    THEN [run EXCEPT !.calls = Append(@, [amended |-> TRUE])]
    ELSE IF parsed = Nil
    THEN responded(run, errorResponse(Thrown(NoNumber,
                                             "AI did not return valid JSON after retry",
                                             TRUE)))
    ELSE responded(run, Response(HttpOk, parsed))

\* the handler from the end of an awaited callLLM to its next await or Response
afterCall(run, outcome) ==
    IF outcome.threw THEN responded(run, errorResponse(outcome.err))
    ELSE afterContent(run, parseJSON(outcome.content))

serveAnswer(run, answer) ==
    afterCall([run EXCEPT !.answers = Append(@, answer)], callLLM(answer))

-----------------------------------------------------------------------------
(* The dashboard: analyzeLog.  The state of a dashboard holds the React    *)
(* state (logText, fileName, analyzing, statusMsg, result), the last toast *)
(* shown, the place analyzeLog has reached and its local constants.        *)

RawLogLimit == 50000

NoToast == [title |-> "", description |-> ""]
Toast(title, description) == [title |-> title, description |-> description]

\* text.replace(/^\[|\]$/g, "")
stripBrackets(text) ==
    SubSeq(text,
           IF text # "" /\ CharAt(text, 1) = "[" THEN 2 ELSE 1,
           IF text # "" /\ CharAt(text, Len(text)) = "]" THEN Len(text) - 1 ELSE Len(text))

cleanLLMOutput(text) == IF ~Truthy(text) THEN text ELSE Trim(stripBrackets(text))

\* String(n) of an integer
NumberText(n) == IF n < 0 THEN "-" \o ToDecimal(0 - n) ELSE ToDecimal(n)

\* JSON.stringify of an array of strings that need no escaping
stringifySteps(steps) ==
    "[" \o Join([k \in 1..Len(steps) |-> "\"" \o steps[k] \o "\""], ",") \o "]"

\* a || b || c on strings that may be null
firstOf(a, b, c) == IF Truthy(a) THEN a ELSE IF Truthy(b) THEN b ELSE c

DashboardIdle(logText) ==
    [pc |-> "idle", logText |-> logText, fileName |-> Null, analyzing |-> FALSE,
     statusMsg |-> "", result |-> Nil, toast |-> NoToast, parsed |-> Nil,
     stackHash |-> "", similarIncidents |-> <<>>, data |-> Nil, confidence |-> Nil,
     analysis |-> Nil, savedAnalysis |-> NoNumber]

\* disabled={analyzing || !logText.trim()} of the Analyze button
analyzeDisabled(w) == w.analyzing \/ Trim(w.logText) = ""

\* A faulty variant of finished, kept to show that the termination property
\* tells the two apart: the analyzing flag is not reset.
finishedStillAnalyzing(w, pc) == [w EXCEPT !.pc = pc, !.statusMsg = ""]

\* finally { setAnalyzing(false); setStatusMsg("") }
finished(w, pc) == [w EXCEPT !.pc = pc, !.analyzing = FALSE, !.statusMsg = ""]

\* catch (err): the generic failure toast
failed(w, message) ==
    finished([w EXCEPT !.toast = Toast("Analysis failed",
                                       IF Truthy(message) THEN message
                                       ELSE "An unexpected error occurred.")],
             "failed")

\* step 1, once the log is known not to be blank
preprocessed(w, parsed) ==
    [w EXCEPT !.pc = "reading", !.analyzing = TRUE, !.result = Nil,
              !.parsed = parsed, !.stackHash = hashStackTrace(parsed.stackTrace),
              !.statusMsg = "Checking incident memory..."]

\* A faulty variant of startAnalysis, kept to show that the blank-log property
\* tells the two apart: the blank check is left out.
startAnalysisUnchecked(w) ==
    preprocessed(w, parseLog(w.logText))

\* analyzeLog from the click to its first await
startAnalysis(w) ==
    IF Trim(w.logText) = ""
    THEN [w EXCEPT !.pc = "rejected",
                   !.toast = Toast("Please provide a log to analyze", Null)]
    ELSE preprocessed(w, parseLog(w.logText))

\* the MatchParams handed to findSimilarIncidents
matchParams(w, userId) ==
    [userId |-> userId, stackTraceHash |-> w.stackHash,
     errorType |-> w.parsed.detectedErrorType, serviceName |-> w.parsed.serviceName]

\* the body of the analyze request
analyzeBody(parsed) ==
    [detectedErrorType |-> parsed.detectedErrorType,
     errorSnippet |-> parsed.errorSnippet,
     logSummary |-> parsed.logSummary,
     serviceName |-> parsed.serviceName,
     environment |-> parsed.environment,
     requestId |-> parsed.requestId]

\* A faulty variant of afterSimilarity, kept to show that the ordering property
\* tells the two apart: the similarity read is entered again.
afterSimilarityAgain(w, similarIncidents) ==
    [w EXCEPT !.similarIncidents = similarIncidents,
              !.statusMsg = "AI reasoning engine analyzing..."]

\* analyzeLog from the similarity list to the await of functions.invoke
afterSimilarity(w, similarIncidents) ==
    [w EXCEPT !.pc = "invoking", !.similarIncidents = similarIncidents,
              !.statusMsg = "AI reasoning engine analyzing..."]

\* what supabase.functions.invoke resolves to for a Response of the function:
\* the body as data for a 2xx status, and otherwise no data and a
\* FunctionsHttpError
invokeResult(response) ==
    IF response.status \in 200..299
    THEN [data |-> response.body, error |-> Nil]
    ELSE [data |-> Nil,
          error |-> [message |-> "Edge Function returned a non-2xx status code"]]

\* what it resolves to when the request cannot be sent: a FunctionsFetchError
invokeFailure ==
    [data |-> Nil,
     error |-> [message |-> "Failed to send a request to the Edge Function"]]

\* the AnalysisResult shown
analysisOf(w, data, confidence) ==
    [detectedErrorType |-> w.parsed.detectedErrorType,
     affectedService |-> firstOf(data.affected_service, w.parsed.serviceName, "Unknown"),
     rootCauseSummary |-> cleanLLMOutput(data.root_cause_summary),
     confidenceReasoning |-> IF Truthy(data.confidence_reasoning)
                             THEN data.confidence_reasoning ELSE confidence.reasoning,
     confidenceScore |-> confidence.score,
     confidenceLevel |-> confidence.level,
     recommendedFixSteps |-> [k \in 1..Len(data.recommended_fix_steps) |->
                                 cleanLLMOutput(data.recommended_fix_steps[k])],
     longTermPrevention |-> cleanLLMOutput(firstOf(data.long_term_prevention, "", "")),
     impactScope |-> cleanLLMOutput(firstOf(data.impact_scope, "", "")),
     similarIncidents |-> w.similarIncidents]

\* step 4 and the start of step 5
scored(w, data, confidence) ==
    [w EXCEPT !.pc = "savingAnalysis", !.data = data, !.confidence = confidence,
              !.analysis = analysisOf(w, data, confidence),
              !.statusMsg = "Saving analysis..."]

\* A faulty variant of afterInvoke, kept to show that the failure property
\* tells the two apart: the test of data.error is left out.
afterInvokeUnchecked(w, reply) ==
    IF reply.error # Nil THEN failed(w, reply.error.message)
    ELSE scored(w, reply.data,
                computeConfidence(reply.data.confidence_score, w.similarIncidents,
                                  w.parsed))

\* analyzeLog from the reply of functions.invoke to its next await or its end
afterInvoke(w, reply) ==
    IF reply.error # Nil THEN failed(w, reply.error.message)
    ELSE IF Truthy(reply.data.error)
    THEN (IF reply.data.status \in {Some(RateLimited), Some(PaymentRequired)}
          THEN finished([w EXCEPT !.toast =
                             Toast(IF reply.data.status = Some(RateLimited)
                                   THEN "Rate limit reached" ELSE "Usage limit reached",
                                   reply.data.error)],
                        "limited")
          ELSE failed(w, reply.data.error))
    ELSE scored(w, reply.data,
                computeConfidence(reply.data.confidence_score, w.similarIncidents,
                                  w.parsed))

\* the row inserted into log_analyses
analysisRow(w, userId, id) ==
    [id |-> id, user_id |-> userId, file_name |-> w.fileName,
     raw_log |-> Substring(w.logText, RawLogLimit),
     detected_error_type |-> w.parsed.detectedErrorType,
     root_cause_summary |-> w.data.root_cause_summary,
     suggested_fix |-> stringifySteps(w.data.recommended_fix_steps),
     business_impact |-> w.data.impact_scope]

\* analyzeLog from the answer of the log_analyses insert to the incidents insert
afterAnalysisInsert(w, savedAnalysis) ==
    [w EXCEPT !.pc = "savingIncident", !.savedAnalysis = savedAnalysis]

\* A faulty variant of incidentRow, kept to show that the repeated-analysis
\* property tells the two apart: the fingerprint is not stored.
incidentRowUnfingerprinted(w, userId, id, now) ==
    [id |-> id, created_at |-> now, user_id |-> userId,
     environment |-> w.parsed.environment,
     error_type |-> w.parsed.detectedErrorType,
     service_name |-> w.parsed.serviceName,
     stack_trace_hash |-> "",
     root_cause_summary |-> w.data.root_cause_summary,
     resolution_notes |-> Null,
     confidence_score |-> Some(w.confidence.score),
     confidence_reasoning |-> w.confidence.reasoning,
     recommended_fix_steps |-> stringifySteps(w.data.recommended_fix_steps),
     long_term_prevention |-> w.data.long_term_prevention,
     impact_scope |-> w.data.impact_scope,
     affected_service |-> w.data.affected_service,
     status |-> "Open",
     raw_log |-> Substring(w.logText, RawLogLimit),
     file_name |-> w.fileName,
     log_analysis_id |-> w.savedAnalysis]

\* the row inserted into incidents; created_at and resolution_notes are the
\* table's defaults
incidentRow(w, userId, id, now) ==
    [id |-> id, created_at |-> now, user_id |-> userId,
     environment |-> w.parsed.environment,
     error_type |-> w.parsed.detectedErrorType,
     service_name |-> w.parsed.serviceName,
     stack_trace_hash |-> w.stackHash,
     root_cause_summary |-> w.data.root_cause_summary,
     resolution_notes |-> Null,
     confidence_score |-> Some(w.confidence.score),
     confidence_reasoning |-> w.confidence.reasoning,
     recommended_fix_steps |-> stringifySteps(w.data.recommended_fix_steps),
     long_term_prevention |-> w.data.long_term_prevention,
     impact_scope |-> w.data.impact_scope,
     affected_service |-> w.data.affected_service,
     status |-> "Open",
     raw_log |-> Substring(w.logText, RawLogLimit),
     file_name |-> w.fileName,
     log_analysis_id |-> w.savedAnalysis]

\* analyzeLog from the answer of the incidents insert to its end
afterIncidentInsert(w) ==
    finished([w EXCEPT !.result = w.analysis,
                       !.toast = Toast("Analysis complete!",
                                       "Confidence: " \o NumberText(w.confidence.score)
                                       \o "% (" \o w.confidence.level \o ")")],
             "completed")

-----------------------------------------------------------------------------
(* Inputs of the fingerprinter: a trace is a short sequence of pieces, a   *)
(* piece being fixed text or a volatile detail (a line number written      *)
(* after ':', a 0x address literal, a timestamp).  The two traces of a     *)
(* pair are the same pieces with the details of one kind filled in         *)
(* differently; two details never touch, so that each stays a detail of    *)
(* its own kind in the text.                                               *)

MaxPieces == 3

TextPieces == {"  at run(A.java", ")\n", "Caused by: E ", "  at ptr:"}
VolatileKinds == {"L", "H", "T"}
LineNumbers == <<"142", "999">>
HexDigitRuns == <<"1f", "7FFE">>
Timestamps == <<"2024-01-15T10:23:45", "2025-03-02T07:01:09">>

Pieces == TextPieces \cup VolatileKinds
Templates ==
    {tpl \in UNION {[1..n -> Pieces] : n \in 1..MaxPieces} :
        \A i \in 1..(Len(tpl) - 1) :
            ~(tpl[i] \in VolatileKinds /\ tpl[i + 1] \in VolatileKinds)}

\* the text of a piece, a detail taking its n-th value
PieceText(piece, n) ==
    CASE piece = "L" -> ":" \o LineNumbers[n]
      [] piece = "H" -> "0x" \o HexDigitRuns[n]
      [] piece = "T" -> Timestamps[n]
      [] OTHER -> piece

\* The text of a template; the details of kind `kind` take their `which`-th
\* value, the others their first.
RECURSIVE Fill(_, _, _, _)
Fill(tpl, kind, which, i) ==
    IF i > Len(tpl) THEN ""
    ELSE PieceText(tpl[i], IF tpl[i] = kind THEN which ELSE 1)
         \o Fill(tpl, kind, which, i + 1)

HashPairs ==
    {[a |-> Fill(tpl, kind, 1, 1), b |-> Fill(tpl, kind, 2, 1), kind |-> kind] :
        <<tpl, kind>> \in
            {x \in Templates \X VolatileKinds : \E i \in DOMAIN x[1] : x[1][i] = x[2]}}

\* Every beginning of two traces, from the empty trace on: one with a line
\* number, an address and a timestamp, one starting with white space.
LongTrace == "  at run(A.java:142)\n  at ptr:0x1f 2024-01-15T10:23:45\nCaused by: E"
BlankLedTrace == "   \n  at main(B.java:7)"

PrefixPairs ==
    {[a |-> SubSeq(LongTrace, 1, n),
      b |-> SubSeq(BlankLedTrace, 1, n % (Len(BlankLedTrace) + 1)),
      kind |-> "P"] : n \in 0..Len(LongTrace)}

NoPair == [a |-> "", b |-> "", kind |-> ""]
NoHash == [done |-> FALSE, a |-> "", b |-> ""]

HashTraces ==
    /\ ~hashOut.done
    /\ hashOut' = [done |-> TRUE, a |-> hashStackTrace(hashIn.a),
                   b |-> hashStackTrace(hashIn.b)]
    /\ UNCHANGED hashIn

-----------------------------------------------------------------------------
(* Inputs of parseLog: a raw log is a short run of fragments, among them a *)
(* marker of each category of the taxonomy (in various letter cases), the  *)
(* two halves of a wildcard pattern, which mark nothing alone, and a line  *)
(* break.                                                                  *)

MaxFrags == 2

LogFrags == {"java.lang.OutOfMemoryError", "TYPE MISMATCH", "field x", " missing",
             "Permission denied", "Read timeout", "connection refused",
             "null pointer", "\n"}

RECURSIVE Concat(_, _)
Concat(frags, i) == IF i > Len(frags) THEN "" ELSE frags[i] \o Concat(frags, i + 1)

RawLogs == {Concat(frags, 1) : frags \in UNION {[1..n -> LogFrags] : n \in 1..MaxFrags}}

\* Logs holding one run of digits: runs of every length from MinRun to MaxRun,
\* a sixteen-digit number written in groups of four, each alone, after a
\* word and a space, or touching letters.
MinRun == 8
MaxRun == 17

DigitRun(n) == SubSeq("41111111111111111111", 1, n)
DigitTexts == {DigitRun(n) : n \in MinRun..MaxRun}
              \cup {"4111 1111 1111 1111", "4111-1111-1111-1111"}
DigitPrefixes == {"", "card ", "id"}
DigitSuffixes == {"", " ok", "ms"}
DigitLogs == {pre \o digits \o post :
                 pre \in DigitPrefixes, digits \in DigitTexts, post \in DigitSuffixes}

\* Logs of numbered lines, up to two of which carry a marker of the timeout
\* category: "timed out" matches its second pattern and its third,
\* "TimeoutException" its first.
MaxSnippetLines == 7

MarkedLine(k, i, j) ==
    IF k = i THEN "job timed out"
    ELSE IF k = j THEN "TimeoutException in step"
    ELSE "line " \o ToDecimal(k)

MarkedLog(n, i, j) == Join([k \in 1..n |-> MarkedLine(k, i, j)], "\n")

MarkedLogs ==
    {MarkedLog(n, i, j) : n \in 1..MaxSnippetLines, i \in 0..MaxSnippetLines,
                          j \in 0..MaxSnippetLines}

\* Logs of stack-frame lines and other lines: two frames, one of them also
\* with a deeper indentation, and a line that is no frame.
MaxFrameLines == 4

FrameLines == {" at a", " at b", "   at a", "E"}

FrameLogs ==
    {Join(lines, "\n") : lines \in UNION {[1..n -> FrameLines] : n \in 1..MaxFrameLines}}

\* Logs of numbered lines, one of which carries a value that a redaction
\* pattern matches (an email address, a card number, a social security
\* number, an account number, a credential assignment) and at most one a
\* marker of the timeout category; line 0 stands for no marker.
MaxLeakLines == 5

SecretValues == {"ann@corp.io", "4111 1111 1111 1111", "123-45-6789",
                 "123456789012", "password=hunter2"}

LeakLine(k, e, p, secret) ==
    (IF k = e THEN "job timed out" ELSE "line " \o ToDecimal(k))
    \o (IF k = p THEN " for " \o secret ELSE "")

LeakLog(e, p, secret) == Join([k \in 1..MaxLeakLines |-> LeakLine(k, e, p, secret)], "\n")

LeakLogs ==
    {LeakLog(e, p, secret) : e \in 0..MaxLeakLines, p \in 1..MaxLeakLines,
                             secret \in SecretValues}

NoLog == "<no log>"
NoParse == [done |-> FALSE]

ParseLog ==
    /\ ~parseOut.done
    /\ parseOut' = [done |-> TRUE, parsed |-> parseLog(parseIn)]
    /\ UNCHANGED parseIn

-----------------------------------------------------------------------------
(* Inputs of truncateLog: a text of numbered lines, short or padded, and a *)
(* character budget.  The function takes the budget as its second         *)
(* parameter (12000 when parseLog calls it), so that over-budget texts of  *)
(* a few lines exercise the same code.                                     *)

MaxTruncLines == 11

TruncLine(k, padded) ==
    IF padded THEN "line " \o ToDecimal(k) \o " ........................................" ELSE ToDecimal(k)

TruncText(n, padded) == Join([k \in 1..n |-> TruncLine(k, padded)], "\n")

Budgets == {1, 8, 20, 40, 100, 400}

TruncInputs ==
    {[log |-> TruncText(n, padded), maxChars |-> b] :
        n \in 1..MaxTruncLines, padded \in BOOLEAN, b \in Budgets}

NoTruncIn == [log |-> NoLog, maxChars |-> 0]
NoTrunc == [done |-> FALSE]

\* one call of truncateLog
TruncateLog ==
    /\ ~truncOut.done
    /\ truncOut' = [done |-> TRUE, text |-> truncateLog(truncIn.log, truncIn.maxChars)]
    /\ UNCHANGED truncIn

-----------------------------------------------------------------------------
(* Inputs of the similarity matcher: the MatchParams of a new log and the  *)
(* incidents table, oldest row first.  A row is built from the fields the  *)
(* query and the scoring read; tables of one row cover every combination   *)
(* of them (empty, equal, differing in letter case, null, another user's), *)
(* longer tables are made of three kinds of row.                           *)

MaxWindow == 6

Fingerprints == {"", "abc", "ABC"}
StoredTypes == {Null, "TimeoutException", "timeoutexception", "UnknownError"}
StoredServices == {Null, "api", "Api"}

RowKinds ==
    [user_id : {"u1", "u2"}, stack_trace_hash : Fingerprints,
     error_type : StoredTypes, service_name : StoredServices]

WindowKinds ==
    {[user_id |-> "u1", stack_trace_hash |-> "abc", error_type |-> "TimeoutException",
      service_name |-> "api"],
     [user_id |-> "u1", stack_trace_hash |-> "", error_type |-> "TimeoutException",
      service_name |-> Null],
     [user_id |-> "u1", stack_trace_hash |-> "ABC", error_type |-> "UnknownError",
      service_name |-> "api"]}

\* the row inserted pos-th into the table
Row(kind, pos) ==
    [id |-> pos, user_id |-> kind.user_id, created_at |-> pos,
     stack_trace_hash |-> kind.stack_trace_hash, error_type |-> kind.error_type,
     service_name |-> kind.service_name, root_cause_summary |-> "cause",
     resolution_notes |-> Null, confidence_score |-> NoNumber, status |-> "Open"]

Table(kinds) == [pos \in 1..Len(kinds) |-> Row(kinds[pos], pos)]

NewLogs ==
    [userId : {"u1"}, stackTraceHash : {"", "abc"},
     errorType : {"TimeoutException", "UnknownError"}, serviceName : {Null, "api"}]

WindowLogs ==
    {[userId |-> "u1", stackTraceHash |-> "abc", errorType |-> "TimeoutException",
      serviceName |-> "api"],
     [userId |-> "u1", stackTraceHash |-> "", errorType |-> "TimeoutException",
      serviceName |-> Null]}

SimInputs ==
    {[params |-> x[1], incidents |-> Table(x[2]), queryFails |-> x[3]] :
        x \in NewLogs \X (UNION {[1..n -> RowKinds] : n \in 0..1}) \X BOOLEAN}
    \cup
    {[params |-> x[1], incidents |-> Table(x[2]), queryFails |-> FALSE] :
        x \in WindowLogs \X (UNION {[1..n -> WindowKinds] : n \in 2..MaxWindow})}

NoSimIn == [params |-> Null, incidents |-> <<>>, queryFails |-> FALSE]
NoSim == [done |-> FALSE, data |-> <<>>, scores |-> <<>>, results |-> <<>>]

\* the rows findSimilarIncidents loops over
queriedRows(in) ==
    IF in.queryFails THEN <<>> ELSE recentIncidents(in.incidents, in.params.userId)

\* the score the loop computes for each of the rows
loopScores(params, data) ==
    [i \in 1..Len(data) |->
        incidentScore(params.stackTraceHash, params.errorType, params.serviceName,
                      data[i])]

\* one call of findSimilarIncidents: the rows its query returned, the score
\* of each, and the list returned
FindSimilarIncidents ==
    /\ ~simOut.done
    /\ simOut' = [done |-> TRUE,
                  data |-> queriedRows(simIn),
                  scores |-> loopScores(simIn.params, queriedRows(simIn)),
                  results |-> findSimilarIncidents(simIn.params, simIn.incidents,
                                                   simIn.queryFails)]
    /\ UNCHANGED simIn

-----------------------------------------------------------------------------
(* Inputs of the confidence engine: a model-reported score, which the      *)
(* response validator lets through whatever number it is, a similarity     *)
(* list sorted by descending score, and a ParsedLog.                       *)

ScoreSlack == 50

ModelScores == (0 - ScoreSlack)..(100 + ScoreSlack)

Match(score) ==
    [id |-> 1, created_at |-> 1, error_type |-> "TimeoutException",
     service_name |-> Null, root_cause_summary |-> "cause", resolution_notes |-> Null,
     confidence_score |-> 0, status |-> "Open", similarityScore |-> score]

SimilarityLists ==
    {<<>>, <<Match(20)>>, <<Match(39)>>, <<Match(40)>>, <<Match(69)>>, <<Match(70)>>,
     <<Match(100), Match(20)>>}

StackTraces == {"", "  at run(A.java:142)", "  at main(A.java:142)"}

ParsedLogs ==
    [detectedErrorType : {"UnknownError", "TimeoutException"},
     errorSnippet : {"Read timeout"}, logSummary : {"Read timeout"},
     serviceName : {Null, "api"}, environment : {Null, "prod"},
     requestId : {Null, "r-1"}, timestamp : {Null, "2024-01-15T10:23:45"},
     stackTrace : StackTraces, cleanedLog : {"Read timeout"}]

ConfInputs ==
    [llmConfidenceScore : ModelScores, similarIncidents : SimilarityLists,
     parsedLog : ParsedLogs]

NoConfIn == [llmConfidenceScore |-> 0, similarIncidents |-> <<>>, parsedLog |-> Null]
NoConf == [done |-> FALSE]

\* one call of computeConfidence
ComputeConfidence ==
    /\ ~confOut.done
    /\ confOut' = [done |-> TRUE,
                   result |-> computeConfidence(confIn.llmConfidenceScore,
                                                confIn.similarIncidents,
                                                confIn.parsedLog)]
    /\ UNCHANGED confIn

-----------------------------------------------------------------------------
(* Inputs of the level derivations: an integer score, from below the      *)
(* lowest to above the highest computeConfidence can return.               *)

LevelScores == (0 - ScoreSlack)..(100 + ScoreSlack)

NoLevelIn == NoNumber
NoLevel == [done |-> FALSE]

\* the level of one score as computeConfidence, the incidents list and the
\* incident detail page derive it
DeriveLevels ==
    /\ ~levelOut.done
    /\ levelOut' = [done |-> TRUE,
                    engine |-> confidenceLevel(levelIn),
                    list |-> getLevel(levelIn),
                    detail |-> detailLevel(levelIn)]
    /\ UNCHANGED levelIn

-----------------------------------------------------------------------------
(* The analysis flow.  Each dashboard runs analyzeLog once on its log; a   *)
(* run of the analyze function serves its request; the gateway answers     *)
(* each callLLM in one of the ways below; the tables are shared.           *)

Dashboards == {"d1", "d2"}
UserId == "u1"

LogTexts ==
    {"  \n",
     "[api] timeout\n at a(B:1)",
     "odd"}

\* Logs analysed twice: with and without a service name, with and without a
\* stack trace.
RepeatLogs == {"odd", "[ab]", " at a", "[ab]\n at a"}

\* the incident an earlier analysis of an uploaded log has left in the table,
\* resolved since
OlderIncident(logText) ==
    [id |-> 1, created_at |-> 1, user_id |-> UserId,
     environment |-> parseLog(logText).environment,
     error_type |-> parseLog(logText).detectedErrorType,
     service_name |-> parseLog(logText).serviceName,
     stack_trace_hash |-> hashStackTrace(parseLog(logText).stackTrace),
     root_cause_summary |-> "The upstream call timed out",
     resolution_notes |-> "Raised the timeout",
     confidence_score |-> Some(60),
     confidence_reasoning |-> "Moderate confidence.",
     recommended_fix_steps |-> "[]",
     long_term_prevention |-> Null,
     impact_scope |-> Null,
     affected_service |-> Null,
     status |-> "Resolved",
     raw_log |-> logText,
     file_name |-> "old.log",
     log_analysis_id |-> NoNumber]

\* the table before the two analyses of logText
RepeatHistories(logText) == {<<>>, <<OlderIncident(logText)>>}

\* a value the model's JSON may hold
ModelValue(cause, score, steps, error, status) ==
    [error_type |-> "TimeoutException", affected_service |-> Null,
     root_cause_summary |-> cause, confidence_reasoning |-> Null,
     confidence_score |-> score, recommended_fix_steps |-> steps,
     long_term_prevention |-> "[Add a retry budget]", impact_scope |-> Null,
     error |-> error, status |-> status]

FullValue ==
    [ModelValue(<<"[The upstream call timed out]">>, Some(85),
                [kind |-> "array",
                 value |-> <<"[Restart the worker]", "Raise the timeout">>],
                Null, NoNumber)
        EXCEPT !.affected_service = "[api]",
               !.confidence_reasoning = "[The trace names the upstream call]",
               !.impact_scope = "[All callers of the API]"]

SparseValue ==
    ModelValue(<<"Unclear">>, NoNumber,
               [kind |-> "string", value |-> "Restart; raise the timeout\n"],
               Null, NoNumber)

RefusalValue(status) ==
    ModelValue(<<"Unclear">>, Some(0 - 50), [kind |-> "other", value |-> Null],
               "I cannot analyze this", status)

NoCauseValue ==
    ModelValue(<<>>, Some(85), [kind |-> "array", value |-> <<>>], Null, NoNumber)

Content(found, wellFormed, value) ==
    [found |-> found, wellFormed |-> wellFormed, value |-> value]

Contents ==
    {Content(FALSE, FALSE, Nil), Content(TRUE, FALSE, Nil),
     Content(TRUE, TRUE, NoCauseValue),
     Content(TRUE, TRUE, FullValue), Content(TRUE, TRUE, SparseValue),
     Content(TRUE, TRUE, RefusalValue(NoNumber)),
     Content(TRUE, TRUE, RefusalValue(Some(RateLimited)))}

GatewayAnswerSet ==
    {[status |-> s] : s \in {FetchRejected, RateLimited, PaymentRequired, 503}}
    \cup {[status |-> HttpOk, garbled |-> TRUE, content |-> Nil]}
    \cup {[status |-> HttpOk, garbled |-> FALSE, content |-> c] : c \in Contents}

\* the click on Analyze: analyzeLog up to its first await
AnalyzeLog(d) ==
    /\ dash[d].pc = "idle"
    /\ dash' = [dash EXCEPT ![d] = startAnalysis(@)]
    /\ UNCHANGED <<edge, incidents, logAnalyses, apiKeySet>>

\* the query of findSimilarIncidents is answered; analyzeLog goes on to invoke
ReadIncidents(d) ==
    /\ dash[d].pc = "reading"
    /\ \E queryFails \in BOOLEAN :
          dash' = [dash EXCEPT ![d] =
                      afterSimilarity(@, findSimilarIncidents(matchParams(@, UserId),
                                                              incidents, queryFails))]
    /\ UNCHANGED <<edge, incidents, logAnalyses, apiKeySet>>

\* the request to the function cannot be sent
InvokeFails(d) ==
    /\ dash[d].pc = "invoking"
    /\ edge[d].pc = "idle"
    /\ dash' = [dash EXCEPT ![d] = afterInvoke(@, invokeFailure)]
    /\ UNCHANGED <<edge, incidents, logAnalyses, apiKeySet>>

\* the function receives the request and runs to its first callLLM
ServeRequest(d) ==
    /\ dash[d].pc = "invoking"
    /\ edge[d].pc = "idle"
    /\ edge' = [edge EXCEPT ![d] =
                   serveRequest(@, analyzeBody(dash[d].parsed), apiKeySet)]
    /\ UNCHANGED <<dash, incidents, logAnalyses, apiKeySet>>

\* the gateway answers the callLLM that is waiting; the function runs on
GatewayAnswers(d) ==
    /\ edge[d].pc = "calling"
    /\ \E answer \in GatewayAnswerSet :
          edge' = [edge EXCEPT ![d] = serveAnswer(@, answer)]
    /\ UNCHANGED <<dash, incidents, logAnalyses, apiKeySet>>

\* functions.invoke resolves with the Response of the function
InvokeReturns(d) ==
    /\ dash[d].pc = "invoking"
    /\ edge[d].pc = "responded"
    /\ dash' = [dash EXCEPT ![d] = afterInvoke(@, invokeResult(edge[d].response))]
    /\ UNCHANGED <<edge, incidents, logAnalyses, apiKeySet>>

\* the insert into log_analyses is answered, with the new row's id or an error
SaveAnalysis(d) ==
    /\ dash[d].pc = "savingAnalysis"
    /\ \E dbError \in BOOLEAN :
          IF dbError
          THEN /\ dash' = [dash EXCEPT ![d] = afterAnalysisInsert(@, NoNumber)]
               /\ UNCHANGED logAnalyses
          ELSE /\ logAnalyses' = Append(logAnalyses,
                                        analysisRow(dash[d], UserId, Len(logAnalyses) + 1))
               /\ dash' = [dash EXCEPT ![d] =
                              afterAnalysisInsert(@, Some(Len(logAnalyses) + 1))]
    /\ UNCHANGED <<edge, incidents, apiKeySet>>

\* A faulty variant of SaveIncident, kept to show that the append-only
\* property tells the two apart: the insert takes the place of the newest
\* stored incident.
SaveIncidentOverwriting(d) ==
    /\ dash[d].pc = "savingIncident"
    /\ incidents' = SubSeq(incidents, 1, Len(incidents) - 1)
                     \o <<incidentRow(dash[d], UserId, Len(incidents) + 1,
                                      Len(incidents) + 1)>>
    /\ dash' = [dash EXCEPT ![d] = afterIncidentInsert(@)]
    /\ UNCHANGED <<edge, logAnalyses, apiKeySet>>

\* the insert into incidents is answered; analyzeLog runs to its end
SaveIncident(d) ==
    /\ dash[d].pc = "savingIncident"
    /\ \E incidentError \in BOOLEAN :
          IF incidentError
          THEN UNCHANGED incidents
          ELSE incidents' = Append(incidents,
                                   incidentRow(dash[d], UserId, Len(incidents) + 1,
                                               Len(incidents) + 1))
    /\ dash' = [dash EXCEPT ![d] = afterIncidentInsert(@)]
    /\ UNCHANGED <<edge, logAnalyses, apiKeySet>>

-----------------------------------------------------------------------------
(* One analysis from the log to the confidence score: analyzeLog's steps   *)
(* 1, 2 and 4 on a log, the incidents the user has stored and the score    *)
(* the model reported.  The logs are one without and one with a final line *)
(* break, neither with anything to extract, and two with a category; the   *)
(* stored incidents are none, one of any kind, or two.                     *)

ScenarioLogs ==
    {"odd", "l1\nl2\nl3\nl4\nl5\n l6 \n", "[api] timeout\n at a(B:1)", "Read timeout"}

ScenarioKinds ==
    \* "y8qbzt" is the fingerprint of the trace " at a(B:1)"
    [user_id : {UserId}, stack_trace_hash : {"", "abc", "y8qbzt"},
     error_type : {"UnknownError", "TimeoutException"}, service_name : {Null, "api"}]

ScenarioHistories ==
    {Table(kinds) : kinds \in UNION {[1..n -> ScenarioKinds] : n \in 0..1}}
    \cup {Table(<<kind, kind>>) : kind \in ScenarioKinds}

ScenarioScores == {0 - 50, 0, 1, 50, 85, 100, 150}

ScenarioInputs == [logText : ScenarioLogs, rows : ScenarioHistories, llm : ScenarioScores]

NoScenIn == [logText |-> NoLog, rows |-> <<>>, llm |-> 0]
NoScen == [done |-> FALSE]

\* step 4 on the outcome of steps 1 and 2
scenarioScored(parsed, similarIncidents, llm) ==
    [done |-> TRUE, parsed |-> parsed, similarIncidents |-> similarIncidents,
     confidence |-> computeConfidence(llm, similarIncidents, parsed)]

\* step 2 on the outcome of step 1
scenarioMatched(parsed, rows, llm) ==
    scenarioScored(
        parsed,
        findSimilarIncidents(
            matchParams([parsed |-> parsed, stackHash |-> hashStackTrace(parsed.stackTrace)],
                        UserId),
            rows, FALSE),
        llm)

AnalyzeScenario ==
    /\ ~scenOut.done
    /\ scenOut' = scenarioMatched(parseLog(scenIn.logText), scenIn.rows, scenIn.llm)
    /\ UNCHANGED scenIn

-----------------------------------------------------------------------------
(* Specifications.  Each runs one part of the program; the variables of    *)
(* the other parts stay at their idle values.                              *)

\* the fingerprinter on pairs of traces
InitHash ==
    /\ hashIn \in HashPairs
    /\ hashOut = NoHash
    /\ parseIn = NoLog
    /\ parseOut = NoParse
    /\ simIn = NoSimIn
    /\ simOut = NoSim
    /\ confIn = NoConfIn
    /\ confOut = NoConf
    /\ truncIn = NoTruncIn
    /\ truncOut = NoTrunc
    /\ scenIn = NoScenIn
    /\ scenOut = NoScen
    /\ levelIn = NoLevelIn
    /\ levelOut = NoLevel
    /\ dash = [d \in Dashboards |-> DashboardIdle("")]
    /\ edge = [d \in Dashboards |-> EdgeIdle]
    /\ incidents = <<>>
    /\ logAnalyses = <<>>
    /\ apiKeySet = TRUE

NextHash == HashTraces /\ UNCHANGED <<parseVars, simVars, confVars, flowVars, levelVars, scenVars, truncVars>>
SpecHash == InitHash /\ [][NextHash]_vars

\* the fingerprinter on every beginning of two traces
InitPrefix ==
    /\ hashIn \in PrefixPairs
    /\ hashOut = NoHash
    /\ parseIn = NoLog
    /\ parseOut = NoParse
    /\ simIn = NoSimIn
    /\ simOut = NoSim
    /\ confIn = NoConfIn
    /\ confOut = NoConf
    /\ truncIn = NoTruncIn
    /\ truncOut = NoTrunc
    /\ scenIn = NoScenIn
    /\ scenOut = NoScen
    /\ levelIn = NoLevelIn
    /\ levelOut = NoLevel
    /\ dash = [d \in Dashboards |-> DashboardIdle("")]
    /\ edge = [d \in Dashboards |-> EdgeIdle]
    /\ incidents = <<>>
    /\ logAnalyses = <<>>
    /\ apiKeySet = TRUE

SpecPrefix == InitPrefix /\ [][NextHash]_vars

\* the parser on raw logs
InitParse ==
    /\ parseIn \in RawLogs
    /\ parseOut = NoParse
    /\ hashIn = NoPair
    /\ hashOut = NoHash
    /\ simIn = NoSimIn
    /\ simOut = NoSim
    /\ confIn = NoConfIn
    /\ confOut = NoConf
    /\ truncIn = NoTruncIn
    /\ truncOut = NoTrunc
    /\ scenIn = NoScenIn
    /\ scenOut = NoScen
    /\ levelIn = NoLevelIn
    /\ levelOut = NoLevel
    /\ dash = [d \in Dashboards |-> DashboardIdle("")]
    /\ edge = [d \in Dashboards |-> EdgeIdle]
    /\ incidents = <<>>
    /\ logAnalyses = <<>>
    /\ apiKeySet = TRUE

NextParse == ParseLog /\ UNCHANGED <<hashVars, simVars, confVars, flowVars, levelVars, scenVars, truncVars>>
SpecParse == InitParse /\ [][NextParse]_vars

\* the parser on logs holding digit runs
InitMask ==
    /\ parseIn \in DigitLogs
    /\ parseOut = NoParse
    /\ hashIn = NoPair
    /\ hashOut = NoHash
    /\ simIn = NoSimIn
    /\ simOut = NoSim
    /\ confIn = NoConfIn
    /\ confOut = NoConf
    /\ truncIn = NoTruncIn
    /\ truncOut = NoTrunc
    /\ scenIn = NoScenIn
    /\ scenOut = NoScen
    /\ levelIn = NoLevelIn
    /\ levelOut = NoLevel
    /\ dash = [d \in Dashboards |-> DashboardIdle("")]
    /\ edge = [d \in Dashboards |-> EdgeIdle]
    /\ incidents = <<>>
    /\ logAnalyses = <<>>
    /\ apiKeySet = TRUE

SpecMask == InitMask /\ [][NextParse]_vars

\* the parser on logs of stack-frame lines
InitDedup ==
    /\ parseIn \in FrameLogs
    /\ parseOut = NoParse
    /\ hashIn = NoPair
    /\ hashOut = NoHash
    /\ simIn = NoSimIn
    /\ simOut = NoSim
    /\ confIn = NoConfIn
    /\ confOut = NoConf
    /\ truncIn = NoTruncIn
    /\ truncOut = NoTrunc
    /\ scenIn = NoScenIn
    /\ scenOut = NoScen
    /\ levelIn = NoLevelIn
    /\ levelOut = NoLevel
    /\ dash = [d \in Dashboards |-> DashboardIdle("")]
    /\ edge = [d \in Dashboards |-> EdgeIdle]
    /\ incidents = <<>>
    /\ logAnalyses = <<>>
    /\ apiKeySet = TRUE

SpecDedup == InitDedup /\ [][NextParse]_vars

\* the parser on logs of numbered lines with markers
InitSnippet ==
    /\ parseIn \in MarkedLogs
    /\ parseOut = NoParse
    /\ hashIn = NoPair
    /\ hashOut = NoHash
    /\ simIn = NoSimIn
    /\ simOut = NoSim
    /\ confIn = NoConfIn
    /\ confOut = NoConf
    /\ truncIn = NoTruncIn
    /\ truncOut = NoTrunc
    /\ scenIn = NoScenIn
    /\ scenOut = NoScen
    /\ levelIn = NoLevelIn
    /\ levelOut = NoLevel
    /\ dash = [d \in Dashboards |-> DashboardIdle("")]
    /\ edge = [d \in Dashboards |-> EdgeIdle]
    /\ incidents = <<>>
    /\ logAnalyses = <<>>
    /\ apiKeySet = TRUE

SpecSnippet == InitSnippet /\ [][NextParse]_vars

\* the parser on logs carrying a value to redact
InitLeak ==
    /\ parseIn \in LeakLogs
    /\ parseOut = NoParse
    /\ hashIn = NoPair
    /\ hashOut = NoHash
    /\ simIn = NoSimIn
    /\ simOut = NoSim
    /\ confIn = NoConfIn
    /\ confOut = NoConf
    /\ truncIn = NoTruncIn
    /\ truncOut = NoTrunc
    /\ scenIn = NoScenIn
    /\ scenOut = NoScen
    /\ levelIn = NoLevelIn
    /\ levelOut = NoLevel
    /\ dash = [d \in Dashboards |-> DashboardIdle("")]
    /\ edge = [d \in Dashboards |-> EdgeIdle]
    /\ incidents = <<>>
    /\ logAnalyses = <<>>
    /\ apiKeySet = TRUE

SpecLeak == InitLeak /\ [][NextParse]_vars

\* the similarity matcher on queried rows
InitSim ==
    /\ simIn \in SimInputs
    /\ simOut = NoSim
    /\ hashIn = NoPair
    /\ hashOut = NoHash
    /\ parseIn = NoLog
    /\ parseOut = NoParse
    /\ confIn = NoConfIn
    /\ confOut = NoConf
    /\ truncIn = NoTruncIn
    /\ truncOut = NoTrunc
    /\ scenIn = NoScenIn
    /\ scenOut = NoScen
    /\ levelIn = NoLevelIn
    /\ levelOut = NoLevel
    /\ dash = [d \in Dashboards |-> DashboardIdle("")]
    /\ edge = [d \in Dashboards |-> EdgeIdle]
    /\ incidents = <<>>
    /\ logAnalyses = <<>>
    /\ apiKeySet = TRUE

NextSim == FindSimilarIncidents /\ UNCHANGED <<hashVars, parseVars, confVars, flowVars, levelVars, scenVars, truncVars>>
SpecSim == InitSim /\ [][NextSim]_vars

\* the confidence engine on model scores, similarity lists and parsed logs
InitConf ==
    /\ confIn \in ConfInputs
    /\ confOut = NoConf
    /\ truncIn = NoTruncIn
    /\ truncOut = NoTrunc
    /\ scenIn = NoScenIn
    /\ scenOut = NoScen
    /\ levelIn = NoLevelIn
    /\ levelOut = NoLevel
    /\ hashIn = NoPair
    /\ hashOut = NoHash
    /\ parseIn = NoLog
    /\ parseOut = NoParse
    /\ simIn = NoSimIn
    /\ simOut = NoSim
    /\ dash = [d \in Dashboards |-> DashboardIdle("")]
    /\ edge = [d \in Dashboards |-> EdgeIdle]
    /\ incidents = <<>>
    /\ logAnalyses = <<>>
    /\ apiKeySet = TRUE

NextConf == ComputeConfidence /\ UNCHANGED <<hashVars, parseVars, simVars, flowVars, levelVars, scenVars, truncVars>>
SpecConf == InitConf /\ [][NextConf]_vars

\* the analysis flow: dashboards, the analyze function, the AI gateway and
\* the two tables
Init ==
    /\ dash \in [Dashboards -> {DashboardIdle(logText) : logText \in LogTexts}]
    /\ edge = [d \in Dashboards |-> EdgeIdle]
    /\ incidents = <<>>
    /\ logAnalyses = <<>>
    /\ apiKeySet \in BOOLEAN
    /\ hashIn = NoPair
    /\ hashOut = NoHash
    /\ parseIn = NoLog
    /\ parseOut = NoParse
    /\ simIn = NoSimIn
    /\ simOut = NoSim
    /\ confIn = NoConfIn
    /\ confOut = NoConf
    /\ truncIn = NoTruncIn
    /\ truncOut = NoTrunc
    /\ scenIn = NoScenIn
    /\ scenOut = NoScen
    /\ levelIn = NoLevelIn
    /\ levelOut = NoLevel

Next ==
    /\ \E d \in Dashboards :
          \/ AnalyzeLog(d)
          \/ ReadIncidents(d)
          \/ InvokeFails(d)
          \/ ServeRequest(d)
          \/ GatewayAnswers(d)
          \/ InvokeReturns(d)
          \/ SaveAnalysis(d)
          \/ SaveIncident(d)
    /\ UNCHANGED <<hashVars, parseVars, simVars, confVars, levelVars, scenVars, truncVars>>

Spec == Init /\ [][Next]_vars

\* a step in which an external call of dashboard d returns or throws, or the
\* function serving its request moves on
Returns(d) ==
    /\ \/ ReadIncidents(d)
       \/ InvokeFails(d)
       \/ ServeRequest(d)
       \/ GatewayAnswers(d)
       \/ InvokeReturns(d)
       \/ SaveAnalysis(d)
       \/ SaveIncident(d)
    /\ UNCHANGED <<hashVars, parseVars, simVars, confVars, levelVars, scenVars, truncVars>>

\* at most one dashboard has a log to analyse
InitSolo ==
    /\ dash \in {w \in [Dashboards -> {DashboardIdle(logText) : logText \in LogTexts}] :
                    Cardinality({d \in Dashboards : Trim(w[d].logText) # ""}) <= 1}
    /\ edge = [d \in Dashboards |-> EdgeIdle]
    /\ incidents = <<>>
    /\ logAnalyses = <<>>
    /\ apiKeySet \in BOOLEAN
    /\ hashIn = NoPair
    /\ hashOut = NoHash
    /\ parseIn = NoLog
    /\ parseOut = NoParse
    /\ simIn = NoSimIn
    /\ simOut = NoSim
    /\ confIn = NoConfIn
    /\ confOut = NoConf
    /\ truncIn = NoTruncIn
    /\ truncOut = NoTrunc
    /\ scenIn = NoScenIn
    /\ scenOut = NoScen
    /\ levelIn = NoLevelIn
    /\ levelOut = NoLevel

\* the flow of one analysis in which every awaited call is answered at some
\* time
SpecFair == InitSolo /\ [][Next]_vars /\ \A d \in Dashboards : WF_vars(Returns(d))

\* the flow on one log analysed by both dashboards, with or without an
\* older incident in the table
InitRepeat ==
    /\ dash \in {[d \in Dashboards |-> DashboardIdle(logText)] : logText \in RepeatLogs}
    /\ edge = [d \in Dashboards |-> EdgeIdle]
    /\ incidents \in RepeatHistories(dash["d1"].logText)
    /\ logAnalyses = <<>>
    /\ apiKeySet = TRUE
    /\ hashIn = NoPair
    /\ hashOut = NoHash
    /\ parseIn = NoLog
    /\ parseOut = NoParse
    /\ simIn = NoSimIn
    /\ simOut = NoSim
    /\ confIn = NoConfIn
    /\ confOut = NoConf
    /\ truncIn = NoTruncIn
    /\ truncOut = NoTrunc
    /\ scenIn = NoScenIn
    /\ scenOut = NoScen
    /\ levelIn = NoLevelIn
    /\ levelOut = NoLevel

SpecRepeat == InitRepeat /\ [][Next]_vars

\* the level derivations on scores
InitLevel ==
    /\ levelIn \in LevelScores
    /\ levelOut = NoLevel
    /\ hashIn = NoPair
    /\ hashOut = NoHash
    /\ parseIn = NoLog
    /\ parseOut = NoParse
    /\ simIn = NoSimIn
    /\ simOut = NoSim
    /\ confIn = NoConfIn
    /\ confOut = NoConf
    /\ truncIn = NoTruncIn
    /\ truncOut = NoTrunc
    /\ scenIn = NoScenIn
    /\ scenOut = NoScen
    /\ dash = [d \in Dashboards |-> DashboardIdle("")]
    /\ edge = [d \in Dashboards |-> EdgeIdle]
    /\ incidents = <<>>
    /\ logAnalyses = <<>>
    /\ apiKeySet = TRUE

NextLevel ==
    DeriveLevels /\ UNCHANGED <<hashVars, parseVars, simVars, confVars, flowVars, scenVars, truncVars>>
SpecLevel == InitLevel /\ [][NextLevel]_vars

\* the truncation stage on texts of numbered lines
InitTrunc ==
    /\ levelIn = NoLevelIn
    /\ levelOut = NoLevel
    /\ hashIn = NoPair
    /\ hashOut = NoHash
    /\ parseIn = NoLog
    /\ parseOut = NoParse
    /\ simIn = NoSimIn
    /\ simOut = NoSim
    /\ confIn = NoConfIn
    /\ confOut = NoConf
    /\ truncIn \in TruncInputs
    /\ truncOut = NoTrunc
    /\ scenIn = NoScenIn
    /\ scenOut = NoScen
    /\ dash = [d \in Dashboards |-> DashboardIdle("")]
    /\ edge = [d \in Dashboards |-> EdgeIdle]
    /\ incidents = <<>>
    /\ logAnalyses = <<>>
    /\ apiKeySet = TRUE

NextTrunc ==
    TruncateLog /\ UNCHANGED <<hashVars, parseVars, simVars, confVars, flowVars, scenVars, levelVars>>
SpecTrunc == InitTrunc /\ [][NextTrunc]_vars

\* one analysis from the log to the confidence score
InitScenario ==
    /\ levelIn = NoLevelIn
    /\ levelOut = NoLevel
    /\ hashIn = NoPair
    /\ hashOut = NoHash
    /\ parseIn = NoLog
    /\ parseOut = NoParse
    /\ simIn = NoSimIn
    /\ simOut = NoSim
    /\ confIn = NoConfIn
    /\ confOut = NoConf
    /\ truncIn = NoTruncIn
    /\ truncOut = NoTrunc
    /\ scenIn \in ScenarioInputs
    /\ scenOut = NoScen
    /\ dash = [d \in Dashboards |-> DashboardIdle("")]
    /\ edge = [d \in Dashboards |-> EdgeIdle]
    /\ incidents = <<>>
    /\ logAnalyses = <<>>
    /\ apiKeySet = TRUE

NextScenario ==
    AnalyzeScenario /\ UNCHANGED <<hashVars, parseVars, simVars, confVars, flowVars, levelVars, truncVars>>
SpecScenario == InitScenario /\ [][NextScenario]_vars

-----------------------------------------------------------------------------
(* Properties.                                                             *)

\* the categories in the order the classification contract fixes
CategoryOrder == <<"OutOfMemoryError", "SchemaMismatch", "PermissionDenied",
                   "TimeoutException", "NetworkError", "NullPointerException">>

\* some pattern of the category named type matches the text
CategoryMatches(type, text) ==
    \E e \in 1..Len(ERROR_TAXONOMY) :
        /\ ERROR_TAXONOMY[e].type = type
        /\ SomePatternMatches(ERROR_TAXONOMY[e].patterns, text)

MatchingCategories(text) ==
    {k \in 1..Len(CategoryOrder) : CategoryMatches(CategoryOrder[k], text)}

FirstCategory(hits) == IF hits = {} THEN "UnknownError" ELSE CategoryOrder[Min(hits)]

\* C1: parseLog's detectedErrorType is the first category, in the order
\* OutOfMemoryError, SchemaMismatch, PermissionDenied, TimeoutException,
\* NetworkError, NullPointerException, that has a pattern matching the raw log,
\* and UnknownError exactly when no category has one.
C1_FirstMatchingCategory ==
    parseOut.done =>
        parseOut.parsed.detectedErrorType = FirstCategory(MatchingCategories(parseIn))

\* C1 (its case): a log matching both an out-of-memory and a schema-mismatch
\* pattern has been parsed and classified OutOfMemoryError.
C1_Witness ==
    /\ parseOut.done
    /\ CategoryMatches("OutOfMemoryError", parseIn)
    /\ CategoryMatches("SchemaMismatch", parseIn)
    /\ parseOut.parsed.detectedErrorType = "OutOfMemoryError"

\* C8: hashStackTrace gives the same fingerprint for two stack traces that
\* differ only in the digits following a ':' (line numbers) or only in the
\* hexadecimal digits of a 0x address literal.
C8_LineAndAddressInvariant ==
    (hashOut.done /\ hashIn.kind \in {"L", "H"}) => hashOut.a = hashOut.b

\* C9: hashStackTrace gives the same fingerprint for two stack traces that
\* differ only in an embedded timestamp.
C9_TimestampInvariant ==
    (hashOut.done /\ hashIn.kind = "T") => hashOut.a = hashOut.b

\* (The line-number half of C8 on its own.)
LineNumbersIgnored ==
    (hashOut.done /\ hashIn.kind = "L") => hashOut.a = hashOut.b

\* position i of the text holds a digit
DigitAt(text, i) == i \in 1..Len(text) /\ CharAt(text, i) \in Digits

\* the positions where a maximal run of digits starts, and the run's length
RunStarts(text) == {i \in 1..Len(text) : DigitAt(text, i) /\ ~DigitAt(text, i - 1)}
RunLength(text, i) == Min({j \in i..(Len(text) + 1) : ~DigitAt(text, j)}) - i

\* the run starting at i stands alone: no letter or underscore touches it
BareRun(text, i) ==
    /\ (i = 1 \/ CharAt(text, i - 1) \notin WordChars)
    /\ (i + RunLength(text, i) > Len(text)
          \/ CharAt(text, i + RunLength(text, i)) \notin WordChars)

\* a run of 13 to 16 digits, or a bare run of 9 to 12 digits, starts at i
SensitiveRun(text, i) ==
    \/ RunLength(text, i) \in 13..16
    \/ (RunLength(text, i) \in 9..12 /\ BareRun(text, i))

HasTag(text) ==
    \E i \in 1..Len(text) : SubSeq(text, i, i + 9) = "_REDACTED]"

\* C15: every digit sequence of 13 to 16 digits and every bare digit sequence
\* of 9 to 12 digits of the input is replaced by a redaction tag in
\* cleanedLog; none survives normalization.
C15_DigitRunsRedacted ==
    parseOut.done =>
        /\ \A i \in RunStarts(parseOut.parsed.cleanedLog) :
              ~SensitiveRun(parseOut.parsed.cleanedLog, i)
        /\ (\E i \in RunStarts(parseIn) : SensitiveRun(parseIn, i))
              => HasTag(parseOut.parsed.cleanedLog)

\* what the patterns do redact: a bare run of 9 to 12 digits, and sixteen
\* digits standing alone, in one run or in groups of four
RedactedAsWritten ==
    parseOut.done =>
        \A i \in RunStarts(parseOut.parsed.cleanedLog) :
            BareRun(parseOut.parsed.cleanedLog, i)
                => RunLength(parseOut.parsed.cleanedLog, i) \notin (9..12) \cup {16}

\* the lines of the parsed log that match a pattern of its category
MatchingLines(type, lines) ==
    {i \in 1..Len(lines) : CategoryMatches(type, lines[i])}

\* the lines from one before line i through three after it, within the text
StatedWindow(lines, i) ==
    Join(SubSeq(lines, IF i - 1 < 1 THEN 1 ELSE i - 1,
                IF i + 3 > Len(lines) THEN Len(lines) ELSE i + 3), "\n")

\* C22: when a category matched, the error snippet is the window from one
\* line before through three lines after the first line, in line order, that
\* matches any pattern of that category, clamped to the bounds of the text.
C22_SnippetAtFirstMatchingLine ==
    (parseOut.done /\ parseOut.parsed.detectedErrorType # "UnknownError"
       /\ MatchingLines(parseOut.parsed.detectedErrorType, SplitLines(parseIn)) # {})
    => parseOut.parsed.errorSnippet
          = StatedWindow(SplitLines(parseIn),
                         Min(MatchingLines(parseOut.parsed.detectedErrorType,
                                           SplitLines(parseIn))))

\* the patterns of the parsed log's category
PatternsOf(type) ==
    ERROR_TAXONOMY[CHOOSE e \in 1..Len(ERROR_TAXONOMY) : ERROR_TAXONOMY[e].type = type].patterns

\* the lines a given pattern matches
LinesOfPattern(pattern, lines) == {i \in 1..Len(lines) : RxTest(pattern, TRUE, lines[i])}

\* what the snippet is: the window around the first line matching the first
\* pattern, in the order of the category's pattern list, that matches a line
SnippetAtFirstPattern ==
    (parseOut.done /\ parseOut.parsed.detectedErrorType # "UnknownError"
       /\ MatchingLines(parseOut.parsed.detectedErrorType, SplitLines(parseIn)) # {})
    => parseOut.parsed.errorSnippet
          = StatedWindow(
                SplitLines(parseIn),
                Min(LinesOfPattern(
                        PatternsOf(parseOut.parsed.detectedErrorType)[
                            Min({k \in 1..Len(PatternsOf(parseOut.parsed.detectedErrorType)) :
                                    LinesOfPattern(
                                        PatternsOf(parseOut.parsed.detectedErrorType)[k],
                                        SplitLines(parseIn)) # {}})],
                        SplitLines(parseIn))))

\* a stack-frame line: white space, "at", white space
LeadingSpaces(line) ==
    Cardinality({k \in 1..Len(line) : \A i \in 1..k : CharAt(line, i) \in Spaces})
IsFrameLine(line) ==
    /\ LeadingSpaces(line) >= 1
    /\ SubSeq(line, LeadingSpaces(line) + 1, LeadingSpaces(line) + 2) = "at"
    /\ CharAt(line, LeadingSpaces(line) + 3) \in Spaces

\* line i is a consecutive duplicate: a frame line identical, apart from its
\* indentation, to the frame line immediately before it
ConsecutiveDuplicate(lines, i) ==
    i > 1 /\ IsFrameLine(lines[i]) /\ IsFrameLine(lines[i - 1])
          /\ Trim(lines[i]) = Trim(lines[i - 1])

StatedMarker(n) == "  ... (" \o ToDecimal(n) \o " duplicate frame(s) removed)"

\* the lines left from line i on, n duplicates having been removed just before
RECURSIVE StatedDedup(_, _, _)
StatedDedup(lines, i, n) ==
    IF i > Len(lines) THEN (IF n > 0 THEN <<StatedMarker(n)>> ELSE <<>>)
    ELSE IF ConsecutiveDuplicate(lines, i) THEN StatedDedup(lines, i + 1, n + 1)
    ELSE (IF n > 0 THEN <<StatedMarker(n)>> ELSE <<>>)
         \o <<lines[i]>> \o StatedDedup(lines, i + 1, 0)

\* C23: the deduplication stage removes a stack-frame line only when it is
\* identical to the frame line immediately before it; each maximal run of
\* removed lines is replaced by one marker counting them; a frame that recurs
\* after a different line is kept; surviving lines keep their order.
C23_ConsecutiveDuplicatesOnly ==
    parseOut.done =>
        parseOut.parsed.cleanedLog = Join(StatedDedup(SplitLines(parseIn), 1, 0), "\n")

\* what the stage leaves: no two frame lines with the same text apart from
\* their indentation, wherever in the log they stood
FramesDistinct ==
    parseOut.done =>
        \A i, j \in 1..Len(SplitLines(parseOut.parsed.cleanedLog)) :
            (i < j /\ IsFrameLine(SplitLines(parseOut.parsed.cleanedLog)[i])
                   /\ IsFrameLine(SplitLines(parseOut.parsed.cleanedLog)[j]))
            => Trim(SplitLines(parseOut.parsed.cleanedLog)[i])
                  # Trim(SplitLines(parseOut.parsed.cleanedLog)[j])

\* the marker stating that n lines were omitted
OmissionMarker(n) == "\n... [" \o ToDecimal(n) \o " lines truncated] ...\n"

\* the first floor(0.3 n) and the last floor(0.7 n) of n lines
HeadOf(lines) == SubSeq(lines, 1, (3 * Len(lines)) \div 10)
TailOf(lines) == SubSeq(lines, Len(lines) - (7 * Len(lines)) \div 10 + 1, Len(lines))

\* head, one marker with the number of lines left out, tail
StatedCombination(lines) ==
    Join(HeadOf(lines)
         \o <<OmissionMarker(Len(lines) - Len(HeadOf(lines)) - Len(TailOf(lines)))>>
         \o TailOf(lines), "\n")

\* what C24 states truncateLog returns
StatedTruncation(log, maxChars) ==
    IF Len(log) <= maxChars THEN log
    ELSE SubSeq(StatedCombination(SplitLines(log)), 1,
                IF Len(StatedCombination(SplitLines(log))) < maxChars
                THEN Len(StatedCombination(SplitLines(log))) ELSE maxChars)

\* C24: the truncated text is at most the budget (12,000 characters) long; a
\* text within the budget is unchanged; an over-budget text of n lines
\* becomes its first floor(0.3n) lines, one marker stating the number N of
\* lines left out, and its last floor(0.7n) lines, head and tail not
\* overlapping, hard-cut to the budget.
C24_TruncationShape ==
    truncOut.done =>
        /\ Len(truncOut.text) <= truncIn.maxChars
        /\ truncOut.text = StatedTruncation(truncIn.log, truncIn.maxChars)

\* what holds of every text: the budget is kept, a text within it is
\* unchanged, and an over-budget text of two or more lines is cut as stated
TruncationOfSeveralLines ==
    truncOut.done =>
        /\ Len(truncOut.text) <= truncIn.maxChars
        /\ (Len(truncIn.log) <= truncIn.maxChars \/ Len(SplitLines(truncIn.log)) >= 2)
              => truncOut.text = StatedTruncation(truncIn.log, truncIn.maxChars)

\* (x * m + c) wrapped to 32 bits, on the two 16-bit halves of x, for m <= 36
MulAdd32(x, m, c) ==
    <<(x[1] * m + (x[2] * m + c) \div Two16) % Two16, (x[2] * m + c) % Two16>>

\* the reference H after the characters i..j of the text, h being its value
\* before them: H * 31 + code(c), wrapped, for each character in turn
RECURSIVE ReferenceRange(_, _, _, _), ReferenceRest(_, _, _, _)
ReferenceRange(text, i, j, h) ==
    IF i > j THEN h
    ELSE IF i = j THEN MulAdd32(h, 31, charCode(CharAt(text, i)))
    ELSE ReferenceRest(text, (i + j) \div 2 + 1, j,
                       ReferenceRange(text, i, (i + j) \div 2, h))

ReferenceRest(text, i, j, h) ==
    IF h[1] >= 0 THEN ReferenceRange(text, i, j, h) ELSE h

ReferenceH(text, n) == ReferenceRange(text, 1, n, <<0, 0>>)

\* |H| of the signed 32-bit value with the given bit pattern
Magnitude(h) ==
    IF h[1] < Two15 THEN h
    ELSE <<Two16 - h[1] - (IF h[2] = 0 THEN 0 ELSE 1), (Two16 - h[2]) % Two16>>

\* the number a base-36 numeral stands for, digit by digit
DigitValue(ch) == CHOOSE v \in 0..35 : CharAt(Base36Digits, v + 1) = ch
RECURSIVE NumeralValue(_, _)
NumeralValue(numeral, n) ==
    IF n = 0 THEN <<0, 0>>
    ELSE MulAdd32(NumeralValue(numeral, n - 1), 36, DigitValue(CharAt(numeral, n)))

\* a base-36 numeral of a number up to 2^31: digits only, no leading zero
IsNumeral(numeral) ==
    /\ Len(numeral) \in 1..6
    /\ \A i \in 1..Len(numeral) :
          \E v \in 0..35 : CharAt(Base36Digits, v + 1) = CharAt(numeral, i)
    /\ (Len(numeral) > 1 => CharAt(numeral, 1) # "0")

\* the fingerprint is the reference fingerprint of the trace
IsReferenceFingerprint(trace, fingerprint) ==
    IF trace = "" THEN fingerprint = ""
    ELSE /\ IsNumeral(fingerprint)
         /\ NumeralValue(fingerprint, Len(fingerprint))
               = Magnitude(ReferenceH(normalizeTrace(trace), Len(normalizeTrace(trace))))
         /\ hashLoop(normalizeTrace(trace), 1, Len(normalizeTrace(trace)), Zero32)
               = ReferenceH(normalizeTrace(trace), Len(normalizeTrace(trace)))

\* C25: hashStackTrace equals the reference fingerprint: the empty string for
\* the empty trace, otherwise the base-36 rendering of |H|, H starting at 0
\* and becoming (H*31 + code(c)) wrapped to the signed 32-bit range for each
\* character of the normalized trace; the shift-and-subtract step gives the
\* same H, and a non-empty trace never yields the empty fingerprint.
C25_ReferenceFingerprint ==
    hashOut.done =>
        /\ IsReferenceFingerprint(hashIn.a, hashOut.a)
        /\ IsReferenceFingerprint(hashIn.b, hashOut.b)

\* C25 (its case): a trace whose H has wrapped to a negative value was
\* fingerprinted, next to a trace of white space only, whose fingerprint is
\* that of H = 0.
C25_Witness ==
    /\ hashOut.done
    /\ ReferenceH(normalizeTrace(hashIn.a), Len(normalizeTrace(hashIn.a)))[1] >= Two15
    /\ hashOut.a # ""
    /\ hashIn.b = "   "
    /\ hashOut.b = "0"

-----------------------------------------------------------------------------
(* What of the raw log reaches the reasoning engine *)

\* part occurs in text
Occurs(part, text) ==
    \E i \in 1..(Len(text) - Len(part) + 1) : SubSeq(text, i, i + Len(part) - 1) = part

\* the whole of text is a match of one of the redaction patterns
MatchesRedaction(text) ==
    \E k \in DOMAIN PII_PATTERNS :
        (Len(text) + 1) \in Range(RxMatch(PII_PATTERNS[k].pattern, PII_PATTERNS[k].ci, text, 1))

\* the values of the raw log that a redaction pattern matches
RedactedParts(rawLog) ==
    {secret \in SecretValues : Occurs(secret, rawLog) /\ MatchesRedaction(secret)}

\* C26: no substring of the raw log that matches a redaction pattern appears
\* in a text field of the request sent to the reasoning engine, neither in
\* errorSnippet nor in logSummary.
C26_NoRedactedTextInRequest ==
    parseOut.done =>
        \A secret \in RedactedParts(parseIn) :
            /\ ~Occurs(secret, analyzeBody(parseOut.parsed).errorSnippet)
            /\ ~Occurs(secret, analyzeBody(parseOut.parsed).logSummary)

\* what does hold: the summary carries no such value, and the snippet carries
\* one exactly when the value's line is among the lines the snippet is cut
\* from the raw log
SummaryRedacted ==
    parseOut.done =>
        \A secret \in RedactedParts(parseIn) :
            /\ ~Occurs(secret, analyzeBody(parseOut.parsed).logSummary)
            /\ ~Occurs(secret, parseOut.parsed.cleanedLog)

\* 1 when the condition holds, 0 otherwise
Indicator(b) == IF b THEN 1 ELSE 0

\* the score C4 states for a new log against one historical incident
StatedScore(params, incident) ==
    Min({100,
         70 * Indicator(params.stackTraceHash # ""
                        /\ params.stackTraceHash = incident.stack_trace_hash)
         + 20 * Indicator(params.errorType = incident.error_type)
         + 10 * Indicator(params.serviceName # Null
                          /\ params.serviceName = incident.service_name)})

\* the queried row a returned SimilarIncident was made from
RowOf(result) == CHOOSE row \in Range(simOut.data) : row.id = result.id

\* C4: the score findSimilarIncidents computes for a historical incident is
\* min(100, 70*[new fingerprint non-empty and equal to the incident's]
\* + 20*[categories equal] + 10*[new log has a service name equal to the
\* incident's]), the comparisons being exact; this is the score of every row
\* in the loop and the similarityScore of every incident returned.
C4_AdditiveScore ==
    simOut.done =>
        /\ \A i \in 1..Len(simOut.data) :
              Min({100, simOut.scores[i]}) = StatedScore(simIn.params, simOut.data[i])
        /\ \A k \in 1..Len(simOut.results) :
              simOut.results[k].similarityScore
                  = StatedScore(simIn.params, RowOf(simOut.results[k]))

\* C4 (its case): a new log with an empty fingerprint has been matched against
\* an incident whose stored fingerprint is empty too; the incident is returned
\* with the 20 points of its category and nothing for the fingerprint.
C4_Witness ==
    /\ simOut.done
    /\ simIn.params.stackTraceHash = ""
    /\ Len(simOut.data) = 1
    /\ simOut.data[1].stack_trace_hash = ""
    /\ simOut.scores[1] = 20
    /\ Len(simOut.results) = 1
    /\ simOut.results[1].similarityScore = 20

\* the positions of the queried rows whose score reaches 20
Eligible == {i \in 1..Len(simOut.data) : simOut.scores[i] >= 20}

\* the place of row i in the stable descending ordering of the eligible rows
RankOf(i) ==
    1 + Cardinality({j \in Eligible :
                        \/ simOut.scores[j] > simOut.scores[i]
                        \/ simOut.scores[j] = simOut.scores[i] /\ j < i})

\* the position of the eligible row whose place is k
RowRanked(k) == CHOOSE i \in Eligible : RankOf(i) = k

\* C5: the list findSimilarIncidents returns is the first five elements of
\* the stable descending-by-score ordering of the queried incidents scoring
\* at least 20: at most 5 entries, every score in 20..100, scores
\* non-increasing, no omitted incident scoring higher than a returned one,
\* and incidents of equal score in their newest-first input order.
C5_StableTopFive ==
    simOut.done =>
        /\ Len(simOut.results) = Min({5, Cardinality(Eligible)})
        /\ \A k \in 1..Len(simOut.results) :
              /\ simOut.results[k].id = simOut.data[RowRanked(k)].id
              /\ simOut.results[k].similarityScore = simOut.scores[RowRanked(k)]
              /\ simOut.results[k].similarityScore \in 20..100
        /\ \A k \in 1..(Len(simOut.results) - 1) :
              /\ simOut.results[k].similarityScore
                    >= simOut.results[k + 1].similarityScore
              /\ simOut.results[k].similarityScore
                    = simOut.results[k + 1].similarityScore
                 => simOut.results[k].created_at > simOut.results[k + 1].created_at
        /\ \A i \in Eligible :
              (\A k \in 1..Len(simOut.results) : simOut.results[k].id # simOut.data[i].id)
              => simOut.scores[i] <= simOut.results[Len(simOut.results)].similarityScore

\* C5 (its case): more than five queried incidents were eligible, so one was
\* left out, and the five returned hold two of different score and two of
\* equal score.
C5_Witness ==
    /\ simOut.done
    /\ Cardinality(Eligible) > 5
    /\ Len(simOut.results) = 5
    /\ simOut.results[1].similarityScore > simOut.results[5].similarityScore
    /\ simOut.results[4].similarityScore = simOut.results[5].similarityScore

\* the rows that differ from a row at most in resolution notes, status,
\* root-cause summary and stored confidence
Variants(row) ==
    {[row EXCEPT !.resolution_notes = n, !.status = s, !.root_cause_summary = c,
                 !.confidence_score = q] :
        n \in {row.resolution_notes, "Restarted the worker"},
        s \in {row.status, "Resolved"},
        c \in {row.root_cause_summary, "another cause"},
        q \in {row.confidence_score, Some(90)}}

\* a row with all four changed, stored with the given environment
Revised(row, environment) ==
    [id |-> row.id, user_id |-> row.user_id, created_at |-> row.created_at,
     stack_trace_hash |-> row.stack_trace_hash, error_type |-> row.error_type,
     service_name |-> row.service_name, root_cause_summary |-> "another cause",
     resolution_notes |-> "Restarted the worker", confidence_score |-> Some(90),
     status |-> "Resolved", environment |-> environment]

\* the new log's MatchParams next to the environment parsed from the log
WithEnvironment(params, environment) ==
    [userId |-> params.userId, stackTraceHash |-> params.stackTraceHash,
     errorType |-> params.errorType, serviceName |-> params.serviceName,
     environment |-> environment]

\* which incidents a list holds, in its order, each with its score
Ranking(results) ==
    [i \in 1..Len(results) |-> <<results[i].id, results[i].similarityScore>>]

\* C18: the similarity score of a stored incident depends only on its
\* fingerprint, category and service name: incidents differing only in
\* resolution notes, status, root-cause summary, stored confidence or
\* environment get the same score against the same new log, and the new
\* log's environment influences no score.
C18_ScoreIndependence ==
    simOut.done =>
        /\ \A i \in 1..Len(simOut.data) :
              \A v \in Variants(simOut.data[i]) :
                  incidentScore(simIn.params.stackTraceHash, simIn.params.errorType,
                                simIn.params.serviceName, v) = simOut.scores[i]
        /\ \A i \in 1..Len(simIn.incidents) :
              \A e \in {Null, "prod"} :
                  Ranking(findSimilarIncidents(
                              simIn.params,
                              [simIn.incidents EXCEPT ![i] = Revised(@, e)],
                              simIn.queryFails))
                      = Ranking(simOut.results)
        /\ \A e \in {Null, "prod", "staging"} :
              findSimilarIncidents(WithEnvironment(simIn.params, e), simIn.incidents,
                                   simIn.queryFails)
                  = simOut.results

\* C18 (its case): an incident scoring 100 was returned while another of the
\* same table scored 10 and was left out.
C18_Witness ==
    /\ simOut.done
    /\ \E i \in 1..Len(simOut.scores) : simOut.scores[i] = 100
    /\ \E i \in 1..Len(simOut.scores) : simOut.scores[i] = 10
    /\ simOut.results # <<>>
    /\ simOut.results[1].similarityScore = 100

\* C3: for every model-reported confidence value the response validator
\* accepts, values below 0 and above 100 included, every similarity list and
\* every ParsedLog, the score computeConfidence returns is an integer between
\* 0 and 100.
C3_ScoreInRange ==
    confOut.done => confOut.result.score \in 0..100

\* the similarity contribution C10 states
StatedS(similarIncidents) ==
    IF similarIncidents = <<>> THEN 0
    ELSE IF similarIncidents[1].similarityScore >= 70 THEN 30
    ELSE IF similarIncidents[1].similarityScore >= 40 THEN 15
    ELSE 0

\* the completeness contribution C10 states
StatedC(parsedLog) ==
    8 * Indicator(parsedLog.detectedErrorType # "UnknownError")
    + 6 * Indicator(parsedLog.serviceName # Null)
    + 4 * Indicator(parsedLog.environment # Null)
    + 4 * Indicator(parsedLog.requestId # Null)
    + 4 * Indicator(parsedLog.timestamp # Null)
    + 4 * Indicator(Len(parsedLog.stackTrace) > 20)

\* ten times min(0.4*m + S + C, 100)
StatedTenths(in) ==
    Min({1000, 4 * in.llmConfidenceScore + 10 * StatedS(in.similarIncidents)
               + 10 * StatedC(in.parsedLog)})

\* C10: for an integer model score m in 0..100, computeConfidence's score is
\* round(min(0.4*m + S + C, 100)), the integer within one half of it (a half
\* going upwards), S being 30, 15 or 0 by the best match and C the sum of the
\* six completeness points, which never exceeds 30.
C10_ScoreFormula ==
    (confOut.done /\ confIn.llmConfidenceScore \in 0..100) =>
        /\ 10 * confOut.result.score - 5 <= StatedTenths(confIn)
        /\ StatedTenths(confIn) < 10 * confOut.result.score + 5
        /\ StatedC(confIn.parsedLog) <= 30

\* C10 (its case): a model score in 0..100 with a best match between 40 and
\* 69 and some completeness points gave a sum that is no integer, and the
\* score has been computed from it.
C10_Witness ==
    /\ confOut.done
    /\ confIn.llmConfidenceScore \in 0..100
    /\ StatedS(confIn.similarIncidents) = 15
    /\ StatedC(confIn.parsedLog) = 18
    /\ StatedTenths(confIn) % 10 = 6
    /\ 10 * confOut.result.score > StatedTenths(confIn)

\* the level C11 states for a score
StatedLevel(score) ==
    IF score < 45 THEN "low" ELSE IF score < 75 THEN "medium" ELSE "high"

\* C11: the confidence level is a step function of the integer score with
\* boundaries exactly at 45 and 75 (44 low, 45 medium, 74 medium, 75 high),
\* and computeConfidence, getLevel of the incidents list and the incident
\* detail page derive the same level from every score.
C11_LevelSteps ==
    levelOut.done =>
        /\ levelOut.engine = StatedLevel(levelIn)
        /\ levelOut.list = StatedLevel(levelIn)
        /\ levelOut.detail = StatedLevel(levelIn)
        /\ levelOut.engine = levelOut.list
        /\ levelOut.list = levelOut.detail

\* C11 (its case): the level of the boundary score 75 has been derived in the
\* three places, and it is high.
C11_Witness ==
    /\ levelOut.done
    /\ levelIn = 75
    /\ levelOut.engine = "high"
    /\ levelOut.list = "high"
    /\ levelOut.detail = "high"

\* the positions of the periods of a text
Periods(text) == {i \in 1..Len(text) : CharAt(text, i) = "."}

\* the position of the k-th period of a text
PeriodAt(text, k) ==
    CHOOSE p \in Periods(text) : Cardinality({q \in Periods(text) : q < p}) = k - 1

\* the k-th sentence of a text whose sentences end with a period and are
\* separated by a space, without its period
Sentence(text, k) ==
    SubSeq(text, IF k = 1 THEN 1 ELSE PeriodAt(text, k - 1) + 2, PeriodAt(text, k) - 1)

StartsWith(text, prefix) ==
    Len(text) >= Len(prefix) /\ SubSeq(text, 1, Len(prefix)) = prefix

\* C12: the reasoning computeConfidence returns consists of exactly three
\* sentences, one per signal in the order certainty, similarity, completeness,
\* each ended by a period, for every similarity list, a non-empty list whose
\* best score is below 40 included.
C12_ThreeSentences ==
    confOut.done =>
        /\ Cardinality(Periods(confOut.result.reasoning)) = 3
        /\ PeriodAt(confOut.result.reasoning, 3) = Len(confOut.result.reasoning)
        /\ StartsWith(Sentence(confOut.result.reasoning, 1), "LLM reports ")
        /\ \/ StartsWith(Sentence(confOut.result.reasoning, 2), "Strong match with ")
           \/ StartsWith(Sentence(confOut.result.reasoning, 2), "Partial match with ")
           \/ StartsWith(Sentence(confOut.result.reasoning, 2), "No similar past incidents")
        /\ \/ StartsWith(Sentence(confOut.result.reasoning, 3), "Log provided rich ")
           \/ StartsWith(Sentence(confOut.result.reasoning, 3), "Some structured context")
           \/ StartsWith(Sentence(confOut.result.reasoning, 3), "Limited structured context")

\* (C12 for the lists it holds for: the empty list and a best score of 40 or more.)
ThreeSentencesUnlessWeakMatch ==
    (confOut.done /\ (confIn.similarIncidents = <<>>
                      \/ confIn.similarIncidents[1].similarityScore >= 40))
        => C12_ThreeSentences

\* the score computeConfidence gives the input of the state with the model
\* score replaced by b
ScoreWith(b) ==
    computeConfidence(b, confIn.similarIncidents, confIn.parsedLog).score

\* the model scores the input's score is compared with: the next one, which
\* covers every pair a <= b of the range step by step, and the two ends of
\* the cap
LaterScores(a) == {b \in {a + 1, 100, 100 + ScoreSlack} : b >= a /\ b \in ModelScores}

\* C19: with the similarity list and the ParsedLog fixed, computeConfidence's
\* score is non-decreasing in the model-reported score, rounding included:
\* a <= b gives score(a) <= score(b).
C19_MonotoneInModelScore ==
    confOut.done =>
        \A b \in LaterScores(confIn.llmConfidenceScore) :
            confOut.result.score <= ScoreWith(b)

\* C19 (its case): a model score of 51 was scored; rounding gives it the
\* score of 50, and 53 scores higher.
C19_Witness ==
    /\ confOut.done
    /\ confIn.llmConfidenceScore = 51
    /\ confOut.result.score = ScoreWith(50)
    /\ confOut.result.score < ScoreWith(53)

\* a call that failed at transport level: no answer, a non-success status, or
\* a body that is no JSON
TransportFailure(answer) == answer.status # 200 \/ answer.garbled

\* a call that returned a content from which no object of the required shape
\* can be taken
Unparseable(answer) ==
    /\ ~TransportFailure(answer)
    /\ \/ ~answer.content.found
       \/ ~answer.content.wellFormed
       \/ answer.content.value.root_cause_summary = <<>>

\* C2, for the run of the analyze function serving one dashboard
RetryDiscipline(run) ==
    /\ Len(run.calls) <= 2
    /\ Len(run.answers) <= Len(run.calls)
    /\ Len(run.calls) = 2 <=> (Len(run.answers) >= 1 /\ Unparseable(run.answers[1]))
    /\ Len(run.calls) = 2 => (~run.calls[1].amended /\ run.calls[2].amended)
    /\ \A k \in 1..Len(run.answers) :
          TransportFailure(run.answers[k]) =>
              /\ Len(run.calls) = k
              /\ Len(run.answers) = k
              /\ run.pc = "responded"
              /\ run.response.status # 200
    /\ (Len(run.answers) = 2 /\ Unparseable(run.answers[2])) =>
          /\ run.pc = "responded"
          /\ run.response.status = 500
          /\ run.response.body.error = "AI did not return valid JSON after retry"

\* C2: within one analyze request the reasoning engine is called at most
\* twice; the second call, with the amended prompt, is issued if and only if
\* the first call returned a content that could not be parsed into the
\* required shape; a call that fails at transport level, first or retry, ends
\* the request with no further call; and an unparseable retry ends the
\* request in a hard failure.
C2_SingleRetry == \A d \in Dashboards : RetryDiscipline(edge[d])

\* C2 (its case): a first call came back unparseable, the retry was issued
\* and came back unparseable too, and the request has failed.
C2_Witness ==
    \E d \in Dashboards :
        /\ Len(edge[d].answers) = 2
        /\ Unparseable(edge[d].answers[1])
        /\ Unparseable(edge[d].answers[2])
        /\ edge[d].pc = "responded"
        /\ dash[d].pc = "failed"

\* the last answer the run received is a rate-limit or quota answer
LimitAnswered(run) ==
    /\ run.answers # <<>>
    /\ run.answers[Len(run.answers)].status \in {429, 402}

LimitStatus(run) == run.answers[Len(run.answers)].status

\* the analyze function's half of C6: no further call, the same status, a
\* specific message
LimitPassedOn(run) ==
    LimitAnswered(run) =>
        /\ Len(run.calls) = Len(run.answers)
        /\ run.pc = "responded"
        /\ run.response.status = LimitStatus(run)
        /\ run.response.body.error
              = (IF LimitStatus(run) = 429
                 THEN "Rate limit exceeded. Please try again shortly."
                 ELSE "Usage limit reached. Please add credits.")

\* the dashboard's half of C6: once analyzeLog has ended, the notice shown is
\* the dedicated one
LimitShown(run, w) ==
    (LimitAnswered(run) /\ w.pc \in {"failed", "limited", "completed"}) =>
        /\ w.toast.title = (IF LimitStatus(run) = 429 THEN "Rate limit reached"
                            ELSE "Usage limit reached")
        /\ w.toast.title # "Analysis failed"

\* C6: a rate-limit (429) or quota (402) answer of the reasoning engine is
\* never retried, the analyze function answers with the same status and a
\* specific message, and the dashboard shows the dedicated "Rate limit
\* reached" / "Usage limit reached" notice, not the generic "Analysis failed".
C6_LimitsSurfaced ==
    \A d \in Dashboards : LimitPassedOn(edge[d]) /\ LimitShown(edge[d], dash[d])

\* (The analyze function's half of C6 on its own.)
LimitsPassedOn == \A d \in Dashboards : LimitPassedOn(edge[d])

\* how far analyzeLog has got
StepOf(w) ==
    IF w.pc = "idle" THEN 0
    ELSE IF w.pc = "reading" THEN 1
    ELSE IF w.pc = "invoking" THEN 2
    ELSE IF w.pc = "savingAnalysis" THEN 3
    ELSE IF w.pc = "savingIncident" THEN 4
    ELSE 5

\* how far the run of the analyze function has got; the retry is a step of it
CallStepOf(run) ==
    IF run.pc = "idle" THEN 0
    ELSE IF run.pc = "calling" THEN Len(run.calls)
    ELSE 3

\* every step of a request moves it forward
StepsForward ==
    \A d \in Dashboards :
        /\ dash'[d] # dash[d] => StepOf(dash'[d]) > StepOf(dash[d])
        /\ edge'[d] # edge[d] => CallStepOf(edge'[d]) > CallStepOf(edge[d])

\* the run answered with a validated reasoning response
ValidatedResponse(run) ==
    /\ run.pc = "responded"
    /\ run.response.status = 200
    /\ ~Unparseable(run.answers[Len(run.answers)])
    /\ ~TransportFailure(run.answers[Len(run.answers)])

\* what each step of a request rests on
StepsInOrder ==
    /\ \A d \in Dashboards :
          /\ dash[d].pc \notin {"idle", "rejected"} => dash[d].parsed # Nil
          /\ edge[d].pc # "idle" => StepOf(dash[d]) >= 2
          /\ Len(edge[d].calls) <= 2
          /\ dash[d].confidence # Nil => ValidatedResponse(edge[d])
          /\ dash[d].pc \in {"savingAnalysis", "savingIncident", "completed"}
                => dash[d].confidence # Nil
          /\ dash[d].result # Nil
                => (dash[d].pc = "completed" /\ dash[d].confidence # Nil)
    /\ Len(logAnalyses)
          <= Cardinality({d \in Dashboards : dash[d].pc \in {"savingIncident", "completed"}})
    /\ Len(incidents) <= Cardinality({d \in Dashboards : dash[d].pc = "completed"})

\* C7: in every run of an analysis request the steps occur strictly forward
\* and at most once each: preprocessing and fingerprinting before the
\* historical-incident read, the read before any reasoning call, the
\* confidence score only after a validated reasoning response, completion
\* (records stored, result shown) only after the score; no earlier step is
\* entered again except the single reasoning retry.
C7_StrictlyForward == [][StepsForward]_vars /\ []StepsInOrder

\* C7 (its case): a request went through every step, the reasoning retry
\* included, and is completed with its incident stored and its result shown.
C7_Witness ==
    \E d \in Dashboards :
        /\ dash[d].pc = "completed"
        /\ dash[d].result # Nil
        /\ Len(edge[d].calls) = 2
        /\ Len(incidents) >= 1
        /\ Len(logAnalyses) >= 1

\* a call that returned a content from which a JSON object with a string
\* root_cause_summary is taken
Accepted(answer) ==
    /\ ~TransportFailure(answer)
    /\ answer.content.found
    /\ answer.content.wellFormed
    /\ answer.content.value.root_cause_summary # <<>>

\* the separators of split(/\n|;/), with the two ends of the text
Separators(text) ==
    {0, Len(text) + 1} \cup {i \in 1..Len(text) : CharAt(text, i) \in {"\n", ";"}}

NextSeparator(text, p) == Min({q \in Separators(text) : q > p})

\* the separators followed by a non-empty piece
PieceStarts(text) ==
    {p \in Separators(text) : p <= Len(text) /\ NextSeparator(text, p) > p + 1}

PieceStart(text, k) ==
    CHOOSE p \in PieceStarts(text) :
        Cardinality({q \in PieceStarts(text) : q < p}) = k - 1

\* the non-empty pieces of a text between newlines and semicolons, trimmed
StatedSplit(text) ==
    [k \in 1..Cardinality(PieceStarts(text)) |->
        Trim(SubSeq(text, PieceStart(text, k) + 1,
                    NextSeparator(text, PieceStart(text, k)) - 1))]

\* the list C13 states for a value of recommended_fix_steps
StatedSteps(steps) ==
    IF steps.kind = "array" THEN steps.value
    ELSE IF steps.kind = "string" THEN StatedSplit(steps.value)
    ELSE <<>>

LastAnswer(run) == run.answers[Len(run.answers)]

\* C13, for the run of the analyze function serving one dashboard
AcceptanceDiscipline(run) ==
    run.pc = "responded" =>
        /\ run.response.status = 200
              <=> (run.answers # <<>> /\ Accepted(LastAnswer(run)))
        /\ run.response.status = 200 =>
              /\ run.response.body.root_cause_summary
                    = LastAnswer(run).content.value.root_cause_summary[1]
              /\ run.response.body.recommended_fix_steps
                    = StatedSteps(LastAnswer(run).content.value.recommended_fix_steps)
              /\ run.response.body.confidence_score
                    = (IF LastAnswer(run).content.value.confidence_score = <<>> THEN 50
                       ELSE LastAnswer(run).content.value.confidence_score[1])

C14_BlankRejected ==
    \A d \in Dashboards :
        (\A i \in 1..Len(dash[d].logText) : CharAt(dash[d].logText, i) \in {" ", "\t", "\n"})
        =>
        /\ dash[d].pc \in {"idle", "rejected"}
        /\ ~dash[d].analyzing
        /\ dash[d].statusMsg = ""
        /\ dash[d].parsed = Nil
        /\ dash[d].similarIncidents = <<>>
        /\ edge[d].pc = "idle"
        /\ edge[d].calls = <<>>
        /\ Len(incidents)
              <= Cardinality({e \in Dashboards \ {d} : dash[e].pc = "completed"})
        /\ Len(logAnalyses)
              <= Cardinality({e \in Dashboards \ {d} :
                                 dash[e].pc \in {"savingIncident", "completed"}})

\* C14 (its case): a dashboard whose log is only whitespace has had Analyze
\* clicked and shows the rejection, while the other dashboard's request
\* completed.
C14_Witness ==
    \E d \in Dashboards :
        /\ dash[d].logText = "  \n"
        /\ dash[d].pc = "rejected"
        /\ dash[d].toast.title = "Please provide a log to analyze"
        /\ \E e \in Dashboards \ {d} : dash[e].pc = "completed"

\* a parsed log with no recognized category, no metadata and no stack trace
NothingExtracted(parsed) ==
    /\ parsed.detectedErrorType = "UnknownError"
    /\ parsed.serviceName = Null
    /\ parsed.environment = Null
    /\ parsed.requestId = Null
    /\ parsed.timestamp = Null
    /\ parsed.stackTrace = ""

\* C16: for a log with no recognizable error pattern and no extractable
\* metadata or stack trace the similarity list of the request is empty,
\* whatever incidents the user has stored.
C16_UnknownLogNoMatches ==
    \A d \in Dashboards :
        (dash[d].parsed # Nil /\ NothingExtracted(dash[d].parsed))
            => dash[d].similarIncidents = <<>>

\* what holds of such a log's similarity list: every match in it is a match
\* of the category alone, with an incident stored as UnknownError
OnlyUnknownMatches ==
    \A d \in Dashboards :
        (dash[d].parsed # Nil /\ NothingExtracted(dash[d].parsed))
            => \A i \in 1..Len(dash[d].similarIncidents) :
                  /\ dash[d].similarIncidents[i].similarityScore = 20
                  /\ dash[d].similarIncidents[i].error_type = "UnknownError"

\* the line breaks of a text, and the place the last five lines start at
Breaks(text) == {i \in 1..Len(text) : CharAt(text, i) = "\n"}
BreaksFrom(text, i) == {j \in Breaks(text) : j >= i}
LastFiveStart(text) ==
    IF Cardinality(Breaks(text)) < 5 THEN 1
    ELSE 1 + (CHOOSE i \in Breaks(text) : Cardinality(BreaksFrom(text, i)) = 5)

\* the last five lines of a log, without the white space around them
StatedSnippet(text) == Trim(SubSeq(text, LastFiveStart(text), Len(text)))

\* the model component: 0.4 times the model score clamped to 0..100, rounded
StatedModelPart(llm) ==
    (4 * (IF llm < 0 THEN 0 ELSE IF llm > 100 THEN 100 ELSE llm) + 5) \div 10

\* the analysed log has no recognizable pattern, no metadata, no stack trace
UnknownScenario ==
    /\ scenOut.done
    /\ MatchingCategories(scenIn.logText) = {}
    /\ scenOut.parsed.serviceName = Null
    /\ scenOut.parsed.environment = Null
    /\ scenOut.parsed.requestId = Null
    /\ scenOut.parsed.timestamp = Null
    /\ scenOut.parsed.stackTrace = ""

\* C17: for a log with no recognizable error pattern and no extractable
\* metadata or stack trace the category is UnknownError, the snippet is the
\* last five lines of the log, the completeness contribution is 0, and the
\* confidence score is at most the model component alone,
\* round(0.4 * model score), itself at most 40, whatever incidents are stored.
C17_UnknownLogBound ==
    UnknownScenario =>
        /\ scenOut.parsed.detectedErrorType = "UnknownError"
        /\ scenOut.parsed.errorSnippet = StatedSnippet(scenIn.logText)
        /\ StatedC(scenOut.parsed) = 0
        /\ scenOut.confidence.score <= StatedModelPart(scenIn.llm)
        /\ StatedModelPart(scenIn.llm) <= 40

\* C17 (its case): a log of more than five lines with nothing to extract was
\* analysed against a stored UnknownError incident, which it matches with
\* score 20, and a model score of 85: the confidence score is 34.
C17_Witness ==
    /\ UnknownScenario
    /\ Cardinality(Breaks(scenIn.logText)) > 5
    /\ Len(scenOut.similarIncidents) = 1
    /\ scenOut.similarIncidents[1].similarityScore = 20
    /\ scenIn.llm = 85
    /\ scenOut.confidence.score = 34

\* a text that neither begins with '[' nor ends with ']'
Unbracketed(text) ==
    text = "" \/ (CharAt(text, 1) # "[" /\ CharAt(text, Len(text)) # "]")

\* the free-text fields of an AnalysisResult
FreeTexts(analysis) ==
    {analysis.rootCauseSummary, analysis.affectedService, analysis.confidenceReasoning,
     analysis.longTermPrevention, analysis.impactScope}
    \cup {analysis.recommendedFixSteps[k] : k \in 1..Len(analysis.recommendedFixSteps)}

\* C20: in the result object assembled for the caller every free-text field
\* taken from the reasoning engine (root-cause summary, affected service,
\* confidence reasoning, each fix step, long-term prevention, impact scope)
\* has its leading and trailing square brackets stripped: none begins with
\* '[' or ends with ']'.
C20_FreeTextUnbracketed ==
    \A d \in Dashboards :
        dash[d].analysis # Nil =>
            \A text \in FreeTexts(dash[d].analysis) : Unbracketed(text)

\* what holds of the result object: the fields passed through cleanLLMOutput
\* are unbracketed for the answers of the model, the other two are the
\* reasoning engine's text as it came
CleanedFieldsUnbracketed ==
    \A d \in Dashboards :
        dash[d].analysis # Nil =>
            /\ \A text \in FreeTexts(dash[d].analysis)
                             \ {dash[d].analysis.affectedService,
                                dash[d].analysis.confidenceReasoning} :
                  Unbracketed(text)
            /\ Truthy(dash[d].data.affected_service)
                  => dash[d].analysis.affectedService = dash[d].data.affected_service
            /\ Truthy(dash[d].data.confidence_reasoning)
                  => dash[d].analysis.confidenceReasoning
                        = dash[d].data.confidence_reasoning

\* the stored incidents stay as they are, in their order, and at most one is
\* added behind them
AppendOnly ==
    /\ Len(incidents') \in {Len(incidents), Len(incidents) + 1}
    /\ SubSeq(incidents', 1, Len(incidents)) = incidents

\* the request of dashboard d completes in this step
Completes(d) == dash[d].pc # "completed" /\ dash'[d].pc = "completed"

\* the incident added in this step is the one of dashboard d's request
AddsIncidentOf(d) ==
    /\ Len(incidents') = Len(incidents) + 1
    /\ incidents'[Len(incidents')].raw_log = dash[d].logText
    /\ incidents'[Len(incidents')].stack_trace_hash = dash[d].stackHash
    /\ incidents'[Len(incidents')].user_id = UserId

\* the statement C21 was given as: a request that completes adds exactly one
\* incident, and nothing else touches the table
ExactlyOnePerCompletion ==
    /\ AppendOnly
    /\ \A d \in Dashboards : Completes(d) => AddsIncidentOf(d)
    /\ (\A d \in Dashboards : ~Completes(d)) => incidents' = incidents

AtMostOnePerCompletion ==
    /\ AppendOnly
    /\ \A d \in Dashboards :
          Completes(d) => (AddsIncidentOf(d) \/ incidents' = incidents)
    /\ (\A d \in Dashboards : ~Completes(d)) => incidents' = incidents

-----------------------------------------------------------------------------
(* The same log analysed again *)

\* the incident stored last
NewestIncident == incidents[Len(incidents)]

\* dashboard d's read of the incident history is answered in this step, after
\* dashboard e has completed its analysis of the same text and its incident
\* is the one stored last
FollowingRead(d, e) ==
    /\ d # e
    /\ dash[e].pc = "completed"
    /\ dash[e].logText = dash[d].logText
    /\ Len(incidents) > 0
    /\ NewestIncident.file_name = dash[e].fileName
    /\ dash[d].pc = "reading"
    /\ dash'[d].pc = "invoking"

\* 20 + 10*[a service name was extracted] + 70*[the stack trace is non-empty]
RepeatScore(parsed) ==
    20 + (IF Truthy(parsed.serviceName) THEN 10 ELSE 0)
       + (IF parsed.stackTrace # "" THEN 70 ELSE 0)

\* the list starts with the incident stored last, with the stated score
StartsWithNewest(list, parsed) ==
    /\ Len(list) > 0
    /\ list[1].id = NewestIncident.id
    /\ list[1].similarityScore = RepeatScore(parsed)

RepeatFindsIncident ==
    \A d \in Dashboards : \A e \in Dashboards :
        FollowingRead(d, e) => StartsWithNewest(dash'[d].similarIncidents, dash[d].parsed)

ReadSucceeds(d) ==
    dash'[d].similarIncidents
        = findSimilarIncidents(matchParams(dash[d], UserId), incidents, FALSE)

RepeatFindsIncidentWhenRead ==
    \A d \in Dashboards : \A e \in Dashboards :
        (FollowingRead(d, e) /\ ReadSucceeds(d))
            => StartsWithNewest(dash'[d].similarIncidents, dash[d].parsed)

-----------------------------------------------------------------------------
(* Failed round trips and the tables *)

\* the reasoning round trip of dashboard d ends in this step, and it failed:
\* the request could not be sent, the function answered with a status that is
\* no success, or its answer carries an error
FailingReturn(d) ==
    /\ dash[d].pc = "invoking"
    /\ dash'[d].pc # "invoking"
    /\ \/ edge[d].pc # "responded"
       \/ edge[d].response.status \notin 200..299
       \/ Truthy(edge[d].response.body.error)

\* the request of dashboard d has ended without a result
Stopped(d) == dash[d].pc \in {"failed", "limited"}

\* a failing round trip stops the request, with no result and no insert
FailureStops(d) ==
    FailingReturn(d) =>
        /\ dash'[d].pc \in {"failed", "limited"}
        /\ dash'[d].result = Nil
        /\ UNCHANGED <<logAnalyses, incidents>>

\* a stopped or completed request does nothing more; the two inserts follow a
\* round trip that did not fail, in their order
RequestOrder(d) ==
    /\ dash[d].pc \in {"failed", "limited", "completed"} => dash'[d] = dash[d]
    /\ dash'[d].pc \in {"failed", "limited"} => dash'[d].result = Nil
    /\ dash[d].pc = "savingAnalysis" => dash'[d].pc \in {"savingAnalysis", "savingIncident"}
    /\ dash[d].pc = "savingIncident" => dash'[d].pc \in {"savingIncident", "completed"}
    /\ (dash'[d].pc = "savingAnalysis" /\ dash[d].pc # "savingAnalysis")
          => (dash[d].pc = "invoking" /\ ~FailingReturn(d))

\* dashboard d alone takes the step, from pc to next
InsertStepOf(d, pc, next) ==
    /\ dash[d].pc = pc
    /\ dash'[d].pc = next
    /\ \A e \in Dashboards \ {d} : dash'[e] = dash[e]

\* a table changes only by one row, in the step of a request that is at that
\* insert
InsertsInOrder ==
    /\ logAnalyses' # logAnalyses =>
          /\ Len(logAnalyses') = Len(logAnalyses) + 1
          /\ incidents' = incidents
          /\ \E d \in Dashboards : InsertStepOf(d, "savingAnalysis", "savingIncident")
    /\ incidents' # incidents =>
          /\ Len(incidents') = Len(incidents) + 1
          /\ logAnalyses' = logAnalyses
          /\ \E d \in Dashboards : InsertStepOf(d, "savingIncident", "completed")

FailureInsertsNothing ==
    /\ InsertsInOrder
    /\ \A d \in Dashboards : FailureStops(d) /\ RequestOrder(d)

\* C28: a request whose reasoning round trip fails inserts no row into
\* log_analyses, none into incidents, and shows no result; a request that
\* completes inserts at most one row into each table.
C28_FailureInsertsNothing == [][FailureInsertsNothing]_vars

\* the same in terms of the tables: no more analyses than requests past the
\* first insert, no more incidents than completed requests
InsertsBounded ==
    /\ Len(logAnalyses)
          <= Cardinality({d \in Dashboards : dash[d].pc \in {"savingIncident", "completed"}})
    /\ Len(incidents) <= Cardinality({d \in Dashboards : dash[d].pc = "completed"})
    /\ \A d \in Dashboards : Stopped(d) => dash[d].result = Nil

\* C28 (its case): one request has failed and shows no result, the other has
\* completed, and each table holds one row.
C28_Witness ==
    /\ dash["d1"].pc = "failed"
    /\ dash["d1"].result = Nil
    /\ dash["d2"].pc = "completed"
    /\ Len(logAnalyses) = 1
    /\ Len(incidents) = 1

-----------------------------------------------------------------------------
(* The similarity scores an analysis can see *)

\* the scores findSimilarIncidents can give its best match
MatcherScores == {20, 30, 70, 80, 90, 100}

\* the best match falls into the partial-match bucket: 40 or more, below 70
PartialBucket(similarIncidents) ==
    bestMatchReaches(similarIncidents, 40) /\ ~bestMatchReaches(similarIncidents, 70)

\* C29: in an analysis, where computeConfidence gets the list that
\* findSimilarIncidents returned, the best match score is one of 20, 30, 70,
\* 80, 90 and 100, the similarity match adds 0 or 30 to the score, and the
\* partial-match bucket is not taken.
C29_PartialBucketUnused ==
    scenOut.done =>
        /\ scenOut.similarIncidents # <<>>
              => scenOut.similarIncidents[1].similarityScore \in MatcherScores
        /\ similarityPoints(scenOut.similarIncidents) \in {0, 30}
        /\ ~PartialBucket(scenOut.similarIncidents)
        /\ ~Occurs("Partial match", scenOut.confidence.reasoning)

\* C29 (its case): the best match of an analysis has the same fingerprint as
\* the log and nothing else in common with it: score 70, the lowest that
\* counts as a strong match.
C29_Witness ==
    /\ scenOut.done
    /\ scenOut.similarIncidents # <<>>
    /\ scenOut.similarIncidents[1].similarityScore = 70
    /\ Occurs("Strong match", scenOut.confidence.reasoning)

-----------------------------------------------------------------------------
(* Every analysis ends *)

\* analyzeLog of dashboard d has returned
Ended(d) == dash[d].pc \in {"completed", "limited", "failed"}

\* the flag is reset, the status message cleared, and the Analyze button can
\* be pressed
AtRest(d) ==
    /\ ~dash[d].analyzing
    /\ dash[d].statusMsg = ""
    /\ ~analyzeDisabled(dash[d])

\* C30: every analysis that has started leaves the analyzing state, provided
\* each external call returns or throws; on success, on a rate-limit or quota
\* answer and on every other failure the analyzing flag is false and the
\* status message empty afterwards, so that the analysis can be started anew.
C30_AnalysisEnds ==
    \A d \in Dashboards :
        /\ dash[d].analyzing ~> (Ended(d) /\ AtRest(d))
        /\ [](Ended(d) => AtRest(d))

\* C30 (its case): an analysis has ended on a quota or rate-limit answer and
\* is at rest.
C30_Witness ==
    \E d \in Dashboards :
        /\ dash[d].pc = "limited"
        /\ dash[d].toast # NoToast
        /\ AtRest(d)

====
